---- MODULE Spec2Model ----
(***************************************************************************)
(* Guardian Angel plugin: the before_tool_call gate (hook.ts), the nonce   *)
(* store (store.ts), the approval tool (approve-tool.ts) and the evaluator *)
(* (evaluate.ts).                                                          *)
(*                                                                         *)
(* Text is a sequence of one-character strings, so that includes() and     *)
(* toLowerCase() are computed as JavaScript computes them.  A JavaScript   *)
(* value is a tagged record [t, v]: "str" (v: the text), "obj" (v: the     *)
(* sequence of <<key, value>> pairs in insertion order) or "arr" (v: the   *)
(* sequence of elements).                                                  *)
(***************************************************************************)
EXTENDS Integers, Sequences, FiniteSets, TLC

\* const x = v; body: v is computed once and named x in body
Bind(v, body(_)) == body(v)

(***************************************************************************)
(* Strings                                                                 *)
(***************************************************************************)
\* String.prototype.includes
Includes(s, p) ==
    \E i \in 0..(Len(s) - Len(p)) : SubSeq(s, i + 1, i + Len(p)) = p

UpperChars == <<"A","B","C","D","E","F","G","H","I","J","K","L","M",
                "N","O","P","Q","R","S","T","U","V","W","X","Y","Z">>
LowerChars == <<"a","b","c","d","e","f","g","h","i","j","k","l","m",
                "n","o","p","q","r","s","t","u","v","w","x","y","z">>

LowerChar(c) ==
    IF \E i \in 1..Len(UpperChars) : UpperChars[i] = c
    THEN LowerChars[CHOOSE i \in 1..Len(UpperChars) : UpperChars[i] = c]
    ELSE c

\* String.prototype.toLowerCase
ToLowerCase(s) == [i \in 1..Len(s) |-> LowerChar(s[i])]

(***************************************************************************)
(* JavaScript values                                                       *)
(***************************************************************************)
Str(s) == [t |-> "str", v |-> s]
Obj(pairs) == [t |-> "obj", v |-> pairs]
Arr(elems) == [t |-> "arr", v |-> elems]
Undefined == [t |-> "undefined", v |-> <<>>]

\* Object.keys(o): the keys in insertion order
ObjectKeys(o) == [i \in 1..Len(o.v) |-> o.v[i][1]]

HasKey(o, k) == \E i \in 1..Len(o.v) : o.v[i][1] = k

\* o[k], undefined when the property is missing
Get(o, k) ==
    IF HasKey(o, k)
    THEN o.v[CHOOSE i \in 1..Len(o.v) : o.v[i][1] = k][2]
    ELSE Undefined

\* The property names of the model in the order Array.prototype.sort gives
\* them (UTF-16 code units).
KeyOrder == <<"action", "command", "file_path", "params", "path", "query", "raw", "target",
              "targets", "to", "toolName">>

\* A mutant of SortKeys: the keys stay in insertion order.
SortKeysNot(keys) == keys

\* Object.keys(params).sort()
SortKeys(keys) ==
    SelectSeq(KeyOrder, LAMBDA k : \E i \in 1..Len(keys) : keys[i] = k)

RECURSIVE JoinComma(_)
JoinComma(parts) ==
    IF Len(parts) = 0 THEN <<>>
    ELSE IF Len(parts) = 1 THEN parts[1]
    ELSE parts[1] \o <<",">> \o JoinComma(Tail(parts))

\* JSON.stringify(value, allow) with an array replacer: at every nesting
\* level an object keeps only the properties named in allow, in allow's
\* order; array elements and strings are kept.
RECURSIVE JSONStringify(_, _)
JSONStringify(val, allow) ==
    IF val.t = "str" THEN <<"\"">> \o val.v \o <<"\"">>
    ELSE IF val.t = "arr"
    THEN <<"[">> \o JoinComma([i \in 1..Len(val.v) |->
                                 JSONStringify(val.v[i], allow)]) \o <<"]">>
    ELSE LET kept == SelectSeq(allow, LAMBDA k : HasKey(val, k))
         IN  <<"{">> \o JoinComma([i \in 1..Len(kept) |->
                   <<"\"", kept[i], "\"", ":">>
                       \o JSONStringify(Get(val, kept[i]), allow)]) \o <<"}">>

\* createHash("sha256").update(s).digest("hex").slice(0, 16): the digest is
\* collision resistant, so it is an injective tagging of the hashed text.
Sha256Hex16(s) == <<"sha256:">> \o s

hashParams(toolName, params) ==
    LET sortedKeys == SortKeys(ObjectKeys(params))
        normalized == JSONStringify(
            Obj(<< <<"toolName", Str(<<toolName>>)>>, <<"params", params>> >>),
            sortedKeys)
    IN  Sha256Hex16(normalized)


(***************************************************************************)
(* constants.ts                                                            *)
(***************************************************************************)
DEFAULT_ESCALATION_THRESHOLD == 36
DEFAULT_PENDING_TIMEOUT_MS == 300000
DEFAULT_APPROVAL_WINDOW_MS == 30000
INFRASTRUCTURE_TOOLS == {"gateway", "exec", "Write", "Edit"}
EXTERNAL_EFFECT_TOOLS == {"message", "browser", "cron", "nodes", "tts"}
DEFAULT_NEVER_BLOCK ==
    {"memory_search", "memory_get", "session_status", "Read", "web_search",
     "web_fetch", "image", "sessions_list", "sessions_history", "agents_list"}

(***************************************************************************)
(* evaluate.ts                                                             *)
(***************************************************************************)
\* String(v)
RECURSIVE JsString(_)
JsString(val) ==
    IF val.t = "str" THEN val.v
    ELSE IF val.t = "obj" THEN <<"[","o","b","j","e","c","t"," ","O","b","j","e","c","t","]">>
    ELSE IF val.t = "arr"
    THEN JoinComma([i \in 1..Len(val.v) |-> JsString(val.v[i])])
    ELSE <<"u","n","d","e","f","i","n","e","d">>

\* truthiness: undefined and "" are falsy, objects and arrays truthy
Truthy(val) == val.t \in {"obj", "arr"} \/ (val.t = "str" /\ val.v # <<>>)

\* String(v || "")
StringOrEmpty(val) == IF Truthy(val) THEN JsString(val) ELSE <<>>

IMAGE_GEN_PATTERNS ==
    { <<"g","e","n","e","r","a","t","e","_","i","m","a","g","e",".","p","y">>,
      <<"n","a","n","o","-","b","a","n","a","n","a">>,
      <<"o","p","e","n","a","i","-","i","m","a","g","e">>,
      <<"d","a","l","l","-","e">>,
      <<"m","i","d","j","o","u","r","n","e","y">>,
      <<"s","t","a","b","l","e","-","d","i","f","f","u","s","i","o","n">>,
      <<"i","m","a","g","e","-","g","e","n">> }

isImageGenerationCommand(cmd) ==
    LET lowerCmd == ToLowerCase(cmd)
    IN  \E pattern \in IMAGE_GEN_PATTERNS : Includes(lowerCmd, pattern)

\* \s and \w of the regular expressions
IsSpace(c) == c \in {" ", "\t", "\n", "\r", "\f"}
IsWordChar(c) ==
    \/ \E i \in 1..Len(LowerChars) : LowerChars[i] = c \/ UpperChars[i] = c
    \/ c \in {"0","1","2","3","4","5","6","7","8","9","_"}

\* \b between s[p] and s[p+1] (p = 0: the start, p = Len(s): the end)
WordBoundary(s, p) ==
    LET before == p >= 1 /\ IsWordChar(s[p])
        after == p + 1 <= Len(s) /\ IsWordChar(s[p + 1])
    IN  before # after

StartsAt(s, i, w) == i + Len(w) - 1 <= Len(s) /\ SubSeq(s, i, i + Len(w) - 1) = w

\* /\b(w1|w2|...)\b/i.test(s), the closing \b only when endB
MatchesWords(s, words, endB) ==
    LET ls == ToLowerCase(s)
    IN  \E i \in 1..Len(ls) : \E w \in words :
            /\ StartsAt(ls, i, w)
            /\ WordBoundary(ls, i - 1)
            /\ endB => WordBoundary(ls, i + Len(w) - 1)

\* /\b(f1|f2|...).{0,n}(s1|s2|...)\b/i.test(s), the closing \b only when endB
MatchesGap(s, firsts, n, seconds, endB) ==
    LET ls == ToLowerCase(s)
    IN  \E i \in 1..Len(ls) : \E f \in firsts : \E g \in 0..n : \E w \in seconds :
            /\ StartsAt(ls, i, f)
            /\ WordBoundary(ls, i - 1)
            /\ StartsAt(ls, i + Len(f) + g, w)
            /\ \A k \in (i + Len(f))..(i + Len(f) + g - 1) : ls[k] \notin {"\n", "\r"}
            /\ endB => WordBoundary(ls, i + Len(f) + g + Len(w) - 1)

\* HARMFUL_IMAGE_PATTERNS, in order: <<matches(prompt), category>>
HARMFUL_IMAGE_PATTERNS(prompt) ==
    << [hit |-> MatchesWords(prompt,
                    { <<"n","u","d","e">>, <<"n","a","k","e","d">>, <<"p","o","r","n">>, <<"p","o","r","n","o","g","r","a","p","h">>, <<"n","s","f","w">>,
                      <<"x","x","x">>, <<"e","r","o","t","i","c">>, <<"s","e","x","u","a","l">>, <<"s","e","x","u","a","l","l","y">>,
                      <<"g","e","n","i","t","a","l">>, <<"g","e","n","i","t","a","l","s">> }, TRUE),
        category |-> "pornography"],
       [hit |-> MatchesGap(prompt,
                    { <<"c","h","i","l","d">>, <<"m","i","n","o","r">>, <<"u","n","d","e","r","a","g","e">>, <<"k","i","d">>, <<"t","e","e","n">> }, 20,
                    { <<"n","u","d","e">>, <<"n","a","k","e","d">>, <<"s","e","x","u","a","l">>, <<"e","r","o","t","i","c">> }, FALSE),
        category |-> "child exploitation"],
       [hit |-> \/ MatchesWords(prompt,
                       { <<"g","o","r","e">>, <<"g","o","r","y">>, <<"d","i","s","m","e","m","b","e","r">>, <<"m","u","t","i","l","a","t">>,
                         <<"t","o","r","t","u","r","e">> }, TRUE)
                \/ MatchesGap(prompt, { <<"b","r","u","t","a","l">> }, 10, { <<"k","i","l","l">> }, TRUE),
        category |-> "extreme violence"],
       [hit |-> \/ MatchesWords(prompt, { <<"t","e","r","r","o","r","i","s","t">>, <<"t","e","r","r","o","r","i","s","m">> }, TRUE)
                \/ MatchesGap(prompt, { <<"b","o","m","b">> }, 10,
                       { <<"m","a","k","e">>, <<"b","u","i","l","d">>, <<"i","n","s","t","r","u","c","t">> }, TRUE),
        category |-> "terrorism"],
       [hit |-> \/ MatchesWords(prompt, { <<"d","e","e","p","f","a","k","e">> }, TRUE)
                \/ MatchesGap(prompt, { <<"f","a","k","e">> }, 10,
                       { <<"i","d">>, <<"p","a","s","s","p","o","r","t">>, <<"d","o","c","u","m","e","n","t">>, <<"e","v","i","d","e","n","c","e">> }, TRUE),
        category |-> "fraud/deception"] >>

\* CONCERNING_IMAGE_PATTERNS, in order: <<matches(prompt), reason>>
CONCERNING_IMAGE_PATTERNS(prompt) ==
    << [hit |-> MatchesWords(prompt,
                    { <<"w","e","a","p","o","n">>, <<"g","u","n">>, <<"r","i","f","l","e">>, <<"p","i","s","t","o","l">>, <<"k","n","i","f","e">>,
                      <<"s","w","o","r","d">> }, TRUE),
        reason |-> "weapons depicted"],
       [hit |-> MatchesWords(prompt,
                    { <<"b","l","o","o","d">>, <<"b","l","o","o","d","y">>, <<"b","l","e","e","d","i","n","g">>, <<"w","o","u","n","d">> }, TRUE),
        reason |-> "potentially graphic content"],
       [hit |-> MatchesWords(prompt,
                    { <<"d","r","u","g">>, <<"c","o","c","a","i","n","e">>, <<"h","e","r","o","i","n">>, <<"m","e","t","h">> }, TRUE),
        reason |-> "drug-related content"] >>

\* null of checkImagePromptContent
NoContentCheck == [found |-> FALSE, block |-> FALSE, reason |-> <<>>]

\* the first pattern of the list that matches, 0 if none does
FirstHit(patterns) ==
    IF \E i \in 1..Len(patterns) : patterns[i].hit
    THEN CHOOSE i \in 1..Len(patterns) :
             patterns[i].hit /\ \A j \in 1..(i - 1) : ~patterns[j].hit
    ELSE 0

checkImagePromptContent(prompt) ==
    Bind(HARMFUL_IMAGE_PATTERNS(prompt), LAMBDA harmful :
    Bind(CONCERNING_IMAGE_PATTERNS(prompt), LAMBDA concerning :
        IF FirstHit(harmful) > 0
        THEN [found |-> TRUE, block |-> TRUE,
              reason |-> <<"Image request contains ",
                           harmful[FirstHit(harmful)].category,
                           " (violation of dignity)">>]
        ELSE IF FirstHit(concerning) > 0
        THEN [found |-> TRUE, block |-> FALSE,
              reason |-> <<"Image request may contain ",
                           concerning[FirstHit(concerning)].reason>>]
        ELSE NoContentCheck))

\* the number of whitespace characters of s from position from on
RECURSIVE SpaceRun(_, _)
SpaceRun(s, from) ==
    IF from <= Len(s) /\ IsSpace(s[from]) THEN 1 + SpaceRun(s, from + 1) ELSE 0

\* the last position of the run of non-whitespace characters from from on
RECURSIVE NonSpaceEnd(_, _)
NonSpaceEnd(s, from) ==
    IF from <= Len(s) /\ ~IsSpace(s[from]) THEN NonSpaceEnd(s, from + 1) ELSE from - 1

\* the last position of the run of characters other than quotes from from on
RECURSIVE NonQuoteEnd(_, _)
NonQuoteEnd(s, from) ==
    IF from <= Len(s) /\ s[from] \notin {"\"", "'"}
    THEN NonQuoteEnd(s, from + 1) ELSE from - 1

\* the position after (?:--prompt|-p) matched at i (case-insensitive), 0 if none
FlagEnd(s, i) ==
    LET ls == ToLowerCase(s)
    IN  IF StartsAt(ls, i, <<"-","-","p","r","o","m","p","t">>) THEN i + 8
        ELSE IF StartsAt(ls, i, <<"-","p">>) THEN i + 2
        ELSE 0

\* /(?:--prompt|-p)\s+["']([^"']+)["']/i matched at i: <<first, last>> of the
\* group, or <<0, 0>>
QuotedAt(s, i) ==
    LET e == FlagEnd(s, i)
        m == SpaceRun(s, e)
        q == e + m
        r == NonQuoteEnd(s, q + 1)
    IN  IF /\ e > 0 /\ m >= 1 /\ q <= Len(s) /\ s[q] \in {"\"", "'"}
           /\ r >= q + 1 /\ r + 1 <= Len(s) /\ s[r + 1] \in {"\"", "'"}
        THEN <<q + 1, r>> ELSE <<0, 0>>

\* (?:\s+[^-][^\s]*)* continued greedily from the group's last position r
RECURSIVE UnquotedEnd(_, _)
UnquotedEnd(s, r) ==
    LET m == SpaceRun(s, r + 1)
        c == r + m + 1
    IN  IF m >= 1 /\ c <= Len(s) /\ s[c] # "-"
        THEN UnquotedEnd(s, NonSpaceEnd(s, c + 1))
        ELSE IF m >= 2
        THEN UnquotedEnd(s, NonSpaceEnd(s, c))
        ELSE r

\* /(?:--prompt|-p)\s+([^-][^\s]*(?:\s+[^-][^\s]*)*)/i matched at i:
\* <<first, last>> of the group, or <<0, 0>>.  \s+ gives back one whitespace
\* character to [^-] when the word after the whitespace starts with "-".
UnquotedAt(s, i) ==
    LET e == FlagEnd(s, i)
        m == SpaceRun(s, e)
        c == e + m
    IN  IF e > 0 /\ m >= 1 /\ c <= Len(s) /\ s[c] # "-"
        THEN <<c, UnquotedEnd(s, NonSpaceEnd(s, c + 1))>>
        ELSE IF e > 0 /\ m >= 2
        THEN <<c - 1, UnquotedEnd(s, NonSpaceEnd(s, c))>>
        ELSE <<0, 0>>

\* String.prototype.trim
RECURSIVE Trim(_)
Trim(s) ==
    IF Len(s) = 0 THEN s
    ELSE IF IsSpace(s[1]) THEN Trim(Tail(s))
    ELSE IF IsSpace(s[Len(s)]) THEN Trim(SubSeq(s, 1, Len(s) - 1))
    ELSE s

\* The prompt of an image generation command; <<>> stands for null (every
\* caller tests the result for truthiness, and "" is falsy as null is).
\* the leftmost match of a pattern: the least position with a group, 0 if
\* there is none
Leftmost(groups) ==
    IF \E i \in 1..Len(groups) : groups[i][1] > 0
    THEN CHOOSE i \in 1..Len(groups) :
             groups[i][1] > 0 /\ \A j \in 1..(i - 1) : groups[j][1] = 0
    ELSE 0

extractImagePrompt(cmd) ==
    Bind([i \in 1..Len(cmd) |-> QuotedAt(cmd, i)], LAMBDA quoted :
    Bind([i \in 1..Len(cmd) |-> UnquotedAt(cmd, i)], LAMBDA unquoted :
        IF Leftmost(quoted) > 0
        THEN SubSeq(cmd, quoted[Leftmost(quoted)][1], quoted[Leftmost(quoted)][2])
        ELSE IF Leftmost(unquoted) > 0
        THEN Trim(SubSeq(cmd, unquoted[Leftmost(unquoted)][1],
                         unquoted[Leftmost(unquoted)][2]))
        ELSE <<>>))

\* the result of checkIntrinsicEvil when nothing matches (null)
NoReason == <<>>

checkIntrinsicEvil(toolName, params) ==
    IF toolName = "exec"
    THEN Bind(StringOrEmpty(Get(params, "command")), LAMBDA cmd :
         Bind(ToLowerCase(cmd), LAMBDA lowerCmd :
         Bind(extractImagePrompt(cmd), LAMBDA prompt :
         Bind(checkImagePromptContent(prompt), LAMBDA contentCheck :
             IF Includes(lowerCmd, <<"r","m"," ","-","r","f"," ","/">>) /\ ~Includes(lowerCmd, <<"r","m"," ","-","r","f"," ","/","t","m","p">>)
             THEN <<"Command would destroy root filesystem">>
             ELSE IF Includes(lowerCmd, <<":","(",")","{"," ",":","|",":","&"," ","}",";",":">>)
             THEN <<"Fork bomb detected">>
             ELSE IF Includes(lowerCmd, <<"m","k","f","s">>) /\ ~Includes(lowerCmd, <<"-","-","d","r","y","-","r","u","n">>)
             THEN <<"Filesystem format command detected">>
             ELSE IF \/ Includes(lowerCmd, <<">"," ","/","d","e","v","/","s","d">>)
                     \/ (Includes(lowerCmd, <<"d","d"," ","i","f","=">>) /\ Includes(lowerCmd, <<"o","f","=","/","d","e","v","/">>))
             THEN <<"Raw disk write detected">>
             ELSE IF /\ isImageGenerationCommand(cmd)
                     /\ prompt # <<>>
                     /\ contentCheck.found /\ contentCheck.block
             THEN contentCheck.reason
             ELSE NoReason))))
    ELSE NoReason

\* the penalty of a concerning image prompt, 0 otherwise
ConcerningPromptPenalty(cmd, penalty) ==
    Bind(extractImagePrompt(cmd), LAMBDA prompt :
    Bind(checkImagePromptContent(prompt), LAMBDA contentCheck :
        IF prompt # <<>> /\ contentCheck.found /\ ~contentCheck.block
        THEN penalty ELSE 0))

Min(a, b) == IF a <= b THEN a ELSE b

assessClarity(toolName, params) ==
    Bind(StringOrEmpty(Get(params, "command")), LAMBDA cmd :
    Bind(StringOrEmpty(Get(params, "action")), LAMBDA action :
    Bind(StringOrEmpty(Get(params, "raw")), LAMBDA raw :
    Bind(Get(params, "targets"), LAMBDA targets :
    Bind(isImageGenerationCommand(cmd), LAMBDA isImage :
    LET infra ==
            IF toolName \in INFRASTRUCTURE_TOOLS
            THEN IF toolName = "exec"
                 THEN IF isImage
                      THEN ConcerningPromptPenalty(cmd, 3)
                      ELSE 3
                 ELSE 3
            ELSE 0
        external == IF toolName \in EXTERNAL_EFFECT_TOOLS THEN 2 ELSE 0
        gateway ==
            IF toolName = "gateway"
            THEN (IF action = <<"c","o","n","f","i","g",".","a","p","p","l","y">> \/ action = <<"c","o","n","f","i","g",".","p","a","t","c","h">>
                  THEN 3 + (IF Includes(raw, <<"m","o","d","e","l">>) \/ Includes(raw, <<"d","e","f","a","u","l","t","M","o","d","e","l">>)
                            THEN 2 ELSE 0)
                  ELSE 0)
                 + (IF action = <<"u","p","d","a","t","e",".","r","u","n">> THEN 2 ELSE 0)
                 + (IF action = <<"r","e","s","t","a","r","t">> THEN 1 ELSE 0)
            ELSE 0
        exec ==
            IF toolName = "exec" /\ ~isImage
            THEN (IF Includes(cmd, <<"s","u","d","o">>) THEN 2 ELSE 0)
                 + (IF Includes(cmd, <<"r","m"," ">>) \/ Includes(cmd, <<"r","m","\t">>) THEN 2 ELSE 0)
                 + (IF Includes(cmd, <<"|">>) \/ Includes(cmd, <<";">>) THEN 1 ELSE 0)
            ELSE 0
        message ==
            IF toolName = "message"
            THEN 1 + (IF Truthy(targets) /\ targets.t = "arr" /\ Len(targets.v) > 1
                      THEN 2 ELSE 0)
            ELSE 0
        cron ==
            IF toolName = "cron" /\ (action = <<"a","d","d">> \/ action = <<"u","p","d","a","t","e">>)
            THEN 2 ELSE 0
    IN  Min(1 + infra + external + gateway + exec + message + cron, 10))))))

assessStakes(toolName, params) ==
    Bind(StringOrEmpty(Get(params, "command")), LAMBDA cmd :
    Bind(StringOrEmpty(Get(params, "action")), LAMBDA action :
    Bind(StringOrEmpty(Get(params, "raw")), LAMBDA raw :
    Bind(StringOrEmpty(IF Truthy(Get(params, "path"))
                       THEN Get(params, "path")
                       ELSE Get(params, "file_path")), LAMBDA path :
    Bind(isImageGenerationCommand(cmd), LAMBDA isImage :
    LET infra ==
            IF toolName \in INFRASTRUCTURE_TOOLS
            THEN IF toolName = "exec"
                 THEN IF isImage
                      THEN ConcerningPromptPenalty(cmd, 2)
                      ELSE 3
                 ELSE 3
            ELSE 0
        gateway ==
            IF toolName = "gateway"
            THEN (IF action = <<"c","o","n","f","i","g",".","a","p","p","l","y">> \/ action = <<"c","o","n","f","i","g",".","p","a","t","c","h">>
                  THEN 2 + (IF Includes(raw, <<"m","o","d","e","l">>) \/ Includes(raw, <<"d","e","f","a","u","l","t","M","o","d","e","l">>)
                            THEN 3 ELSE 0)
                         + (IF Includes(raw, <<"p","l","u","g","i","n">>) THEN 2 ELSE 0)
                  ELSE 0)
                 + (IF action = <<"u","p","d","a","t","e",".","r","u","n">> THEN 3 ELSE 0)
                 + (IF action = <<"r","e","s","t","a","r","t">> THEN 1 ELSE 0)
            ELSE 0
        exec ==
            IF toolName = "exec" /\ ~isImage
            THEN (IF Includes(cmd, <<"r","m"," ">>) /\ ~Includes(cmd, <<"-","i">>) THEN 3 ELSE 0)
                 + (IF Includes(cmd, <<"k","i","l","l">>) \/ Includes(cmd, <<"p","k","i","l","l">>) THEN 2 ELSE 0)
                 + (IF Includes(cmd, <<"s","h","u","t","d","o","w","n">>) \/ Includes(cmd, <<"r","e","b","o","o","t">>) THEN 5 ELSE 0)
                 + (IF Includes(cmd, <<"s","u","d","o">>) THEN 2 ELSE 0)
                 + (IF /\ Includes(cmd, <<"o","p","e","n","c","l","a","w">>)
                       /\ (Includes(cmd, <<"s","t","o","p">>) \/ Includes(cmd, <<"k","i","l","l">>))
                    THEN 4 ELSE 0)
            ELSE 0
        write ==
            IF toolName = "Write" \/ toolName = "Edit"
            THEN (IF Includes(path, <<"o","p","e","n","c","l","a","w">>) /\ Includes(path, <<"c","o","n","f","i","g">>)
                  THEN 3 ELSE 0)
                 + (IF \/ Includes(path, <<".","e","n","v">>) \/ Includes(path, <<"s","e","c","r","e","t">>)
                       \/ Includes(path, <<"c","r","e","d","e","n","t","i","a","l">>)
                    THEN 2 ELSE 0)
            ELSE 0
        message == IF toolName = "message" THEN 2 ELSE 0
        cron ==
            IF toolName = "cron" /\ (action = <<"a","d","d">> \/ action = <<"u","p","d","a","t","e">>)
            THEN 2 ELSE 0
    IN  Min(1 + infra + gateway + exec + write + message + cron, 10))))))

buildEscalationReason(toolName, params, clarity, stakes, score) ==
    Bind(StringOrEmpty(Get(params, "action")), LAMBDA action :
    Bind(StringOrEmpty(Get(params, "command")), LAMBDA cmd :
    Bind(extractImagePrompt(cmd), LAMBDA prompt :
    Bind(checkImagePromptContent(prompt), LAMBDA contentCheck :
    Bind(IF Truthy(Get(params, "to")) THEN Get(params, "to")
         ELSE IF Truthy(Get(params, "target")) THEN Get(params, "target")
         ELSE Get(params, "targets"), LAMBDA to :
    LET head == <<"Action: ", toolName, " | ", "Risk score: ", ToString(score),
                  " (clarity=", ToString(clarity), ", stakes=", ToString(stakes), ")">>
        gateway ==
            IF toolName = "gateway"
            THEN (IF Includes(action, <<"c","o","n","f","i","g">>)
                  THEN <<" | ", "This modifies OpenClaw configuration">> ELSE <<>>)
                 \o (IF action = <<"u","p","d","a","t","e",".","r","u","n">>
                     THEN <<" | ", "This updates OpenClaw software">> ELSE <<>>)
                 \o (IF action = <<"r","e","s","t","a","r","t">>
                     THEN <<" | ", "This will restart OpenClaw">> ELSE <<>>)
            ELSE <<>>
        exec ==
            IF toolName = "exec"
            THEN IF isImageGenerationCommand(cmd)
                 THEN (IF prompt # <<>> /\ contentCheck.found /\ ~contentCheck.block
                       THEN <<" | ">> \o contentCheck.reason ELSE <<>>)
                      \o <<" | ", "Image generation">>
                 ELSE <<" | ", "Command: ">> \o SubSeq(cmd, 1, Min(80, Len(cmd)))
                      \o (IF Len(cmd) > 80 THEN <<"...">> ELSE <<>>)
            ELSE <<>>
        message ==
            IF toolName = "message" /\ Truthy(to)
            THEN <<" | ", "Recipient: ">>
                 \o SubSeq(JsString(to), 1, Min(50, Len(JsString(to))))
            ELSE <<>>
    IN  head \o gateway \o exec \o message)))))

\* A mutant of Threshold: the highest threshold of the configSchema.
ThresholdMax(config) == 100

\* config.escalationThreshold ?? DEFAULT_ESCALATION_THRESHOLD
Threshold(config) ==
    IF config.escalationThreshold.set THEN config.escalationThreshold.val
    ELSE DEFAULT_ESCALATION_THRESHOLD

\* A mutant of evaluate: a score equal to the threshold does not escalate.
evaluateStrict(toolName, params, config) ==
    Bind(checkIntrinsicEvil(toolName, params), LAMBDA intrinsicCheck :
    Bind(assessClarity(toolName, params), LAMBDA clarity :
    Bind(assessStakes(toolName, params), LAMBDA stakes :
    Bind(clarity * stakes, LAMBDA score :
    Bind(Threshold(config), LAMBDA threshold :
        IF intrinsicCheck # NoReason
        THEN [decision |-> "block", reason |-> intrinsicCheck,
              clarity |-> 0, stakes |-> 0]
        ELSE IF score > threshold
        THEN [decision |-> "escalate",
              reason |-> buildEscalationReason(toolName, params, clarity, stakes, score),
              clarity |-> clarity, stakes |-> stakes]
        ELSE [decision |-> "allow", reason |-> <<>>,
              clarity |-> clarity, stakes |-> stakes])))))

\* A mutant of evaluate: the score is compared with the threshold before
\* the detector is asked.
evaluateScoreFirst(toolName, params, config) ==
    Bind(checkIntrinsicEvil(toolName, params), LAMBDA intrinsicCheck :
    Bind(assessClarity(toolName, params), LAMBDA clarity :
    Bind(assessStakes(toolName, params), LAMBDA stakes :
    Bind(clarity * stakes, LAMBDA score :
    Bind(Threshold(config), LAMBDA threshold :
        IF score < threshold
        THEN [decision |-> "allow", reason |-> <<>>,
              clarity |-> clarity, stakes |-> stakes]
        ELSE IF intrinsicCheck # NoReason
        THEN [decision |-> "block", reason |-> intrinsicCheck,
              clarity |-> 0, stakes |-> 0]
        ELSE [decision |-> "escalate",
              reason |-> buildEscalationReason(toolName, params, clarity, stakes, score),
              clarity |-> clarity, stakes |-> stakes])))))

\* evaluate(): the detector, then the score against the threshold
evaluate(toolName, params, config) ==
    Bind(checkIntrinsicEvil(toolName, params), LAMBDA intrinsicCheck :
    Bind(assessClarity(toolName, params), LAMBDA clarity :
    Bind(assessStakes(toolName, params), LAMBDA stakes :
    Bind(clarity * stakes, LAMBDA score :
    Bind(Threshold(config), LAMBDA threshold :
        IF intrinsicCheck # NoReason
        THEN [decision |-> "block", reason |-> intrinsicCheck,
              clarity |-> 0, stakes |-> 0]
        ELSE IF score >= threshold
        THEN [decision |-> "escalate",
              reason |-> buildEscalationReason(toolName, params, clarity, stakes, score),
              clarity |-> clarity, stakes |-> stakes]
        ELSE [decision |-> "allow", reason |-> <<>>,
              clarity |-> clarity, stakes |-> stakes])))))

(***************************************************************************)
(* store.ts                                                                *)
(***************************************************************************)
\* { pending: {}, approved: {} }
EmptyState == [pending |-> <<>>, approved |-> <<>>]

\* the persisted file before the first write
NoFile == [exists |-> FALSE, state |-> EmptyState]

\* config.pendingTimeoutMs || DEFAULT_PENDING_TIMEOUT_MS
PendingTimeoutMs(config) ==
    IF config.pendingTimeoutMs.set /\ config.pendingTimeoutMs.val # 0
    THEN config.pendingTimeoutMs.val ELSE DEFAULT_PENDING_TIMEOUT_MS

\* config.approvalWindowMs || DEFAULT_APPROVAL_WINDOW_MS
ApprovalWindowMs(config) ==
    IF config.approvalWindowMs.set /\ config.approvalWindowMs.val # 0
    THEN config.approvalWindowMs.val ELSE DEFAULT_APPROVAL_WINDOW_MS

\* file content that readFileSync cannot read or JSON.parse rejects
Unparsable == [garbage |-> TRUE]

\* file content that is valid JSON without the pending and approved
\* mappings, such as {"version": 1}
NoMappings == [version |-> 1]

\* load(): the empty state when the file is absent or reading or parsing
\* throws; otherwise whatever JSON.parse returns, taken as a StoreState
load(file) ==
    IF file.exists /\ file.state # Unparsable THEN file.state ELSE EmptyState

\* state[mapping][key] throws a TypeError when the loaded document has no
\* such mapping (state[mapping] is undefined)
Raises(state, mapping) == mapping \notin DOMAIN state

\* writeFileSync inside try/catch: a failed write (ok = FALSE) is swallowed
\* and leaves the file as it was
save(file, state, ok) == IF ok THEN [exists |-> TRUE, state |-> state] ELSE file

\* A mutant of Delete: every entry of the mapping is removed.
DeleteAll(m, k) == [x \in {} |-> m[x]]

\* delete m[k]
Delete(m, k) == [x \in (DOMAIN m) \ {k} |-> m[x]]

\* m[k] = v
Put(m, k, v) == [x \in (DOMAIN m) \cup {k} |-> IF x = k THEN v ELSE m[x]]

\* A mutant of createPending: the record is not inserted.
createPendingUnstored(state, nonce, paramsHash, toolName, params, t, config) == state

\* the state createPending saves (the nonce is drawn by the caller)
createPending(state, nonce, paramsHash, toolName, params, t, config) ==
    [pending |-> Put(state.pending, nonce,
                     [nonce |-> nonce, paramsHash |-> paramsHash,
                      toolName |-> toolName, params |-> params,
                      createdAt |-> t, expiresAt |-> t + PendingTimeoutMs(config)]),
     approved |-> state.approved]

\* A mutant of RoundSeconds: the window is returned in milliseconds.
RoundSecondsNot(ms) == ms

\* Math.round(ms / 1000)
RoundSeconds(ms) == (ms + 500) \div 1000

\* A mutant of approvePending: the pending record is kept after approval.
approvePendingKeep(state, nonce, t, config) ==
    IF nonce \notin DOMAIN state.pending
    THEN [state |-> state, save |-> FALSE, ok |-> FALSE, error |-> "NotFound",
          windowSeconds |-> 0]
    ELSE IF t > state.pending[nonce].expiresAt
    THEN [state |-> [pending |-> Delete(state.pending, nonce),
                     approved |-> state.approved],
          save |-> TRUE, ok |-> FALSE, error |-> "Expired", windowSeconds |-> 0]
    ELSE LET pending == state.pending[nonce]
         IN  [state |-> [pending |-> state.pending,
                         approved |-> Put(state.approved, pending.paramsHash,
                             [nonce |-> nonce, paramsHash |-> pending.paramsHash,
                              toolName |-> pending.toolName, approvedAt |-> t,
                              expiresAt |-> t + ApprovalWindowMs(config)])],
              save |-> TRUE, ok |-> TRUE, error |-> "",
              windowSeconds |-> RoundSeconds(ApprovalWindowMs(config))]

\* A mutant of approvePending: the deadline test is >= instead of >.
approvePendingStrict(state, nonce, t, config) ==
    IF nonce \notin DOMAIN state.pending
    THEN [state |-> state, save |-> FALSE, ok |-> FALSE, error |-> "NotFound",
          windowSeconds |-> 0]
    ELSE IF t >= state.pending[nonce].expiresAt
    THEN [state |-> [pending |-> Delete(state.pending, nonce),
                     approved |-> state.approved],
          save |-> TRUE, ok |-> FALSE, error |-> "Expired", windowSeconds |-> 0]
    ELSE LET pending == state.pending[nonce]
         IN  [state |-> [pending |-> Delete(state.pending, nonce),
                         approved |-> Put(state.approved, pending.paramsHash,
                             [nonce |-> nonce, paramsHash |-> pending.paramsHash,
                              toolName |-> pending.toolName, approvedAt |-> t,
                              expiresAt |-> t + ApprovalWindowMs(config)])],
              save |-> TRUE, ok |-> TRUE, error |-> "",
              windowSeconds |-> RoundSeconds(ApprovalWindowMs(config))]

\* approvePending on the loaded state: the state to save (when save), and
\* the returned { ok, windowSeconds } or { ok: false, error }
\* ("NotFound": "Nonce not found or already used"; "Expired": "Escalation
\* expired. Please retry the original action.")
approvePending(state, nonce, t, config) ==
    IF nonce \notin DOMAIN state.pending
    THEN [state |-> state, save |-> FALSE, ok |-> FALSE, error |-> "NotFound",
          windowSeconds |-> 0]
    ELSE IF t > state.pending[nonce].expiresAt
    THEN [state |-> [pending |-> Delete(state.pending, nonce),
                     approved |-> state.approved],
          save |-> TRUE, ok |-> FALSE, error |-> "Expired", windowSeconds |-> 0]
    ELSE LET pending == state.pending[nonce]
         IN  [state |-> [pending |-> Delete(state.pending, nonce),
                         approved |-> Put(state.approved, pending.paramsHash,
                             [nonce |-> nonce, paramsHash |-> pending.paramsHash,
                              toolName |-> pending.toolName, approvedAt |-> t,
                              expiresAt |-> t + ApprovalWindowMs(config)])],
              save |-> TRUE, ok |-> TRUE, error |-> "",
              windowSeconds |-> RoundSeconds(ApprovalWindowMs(config))]

\* A mutant of consumeApproval: the approval is returned but not deleted.
consumeApprovalKeep(state, paramsHash, t) ==
    IF paramsHash \notin DOMAIN state.approved
    THEN [state |-> state, save |-> FALSE, found |-> FALSE, nonce |-> ""]
    ELSE IF t > state.approved[paramsHash].expiresAt
    THEN [state |-> [pending |-> state.pending,
                     approved |-> Delete(state.approved, paramsHash)],
          save |-> TRUE, found |-> FALSE, nonce |-> ""]
    ELSE [state |-> state, save |-> TRUE, found |-> TRUE,
          nonce |-> state.approved[paramsHash].nonce]

\* A mutant of consumeApproval: the deadline is not looked at.
consumeApprovalNoExpiry(state, paramsHash, t) ==
    IF paramsHash \notin DOMAIN state.approved
    THEN [state |-> state, save |-> FALSE, found |-> FALSE, nonce |-> ""]
    ELSE [state |-> [pending |-> state.pending,
                     approved |-> Delete(state.approved, paramsHash)],
          save |-> TRUE, found |-> TRUE,
          nonce |-> state.approved[paramsHash].nonce]

\* consumeApproval on the loaded state: the state to save (when save), and
\* the returned { nonce } (found) or null
consumeApproval(state, paramsHash, t) ==
    IF paramsHash \notin DOMAIN state.approved
    THEN [state |-> state, save |-> FALSE, found |-> FALSE, nonce |-> ""]
    ELSE IF t > state.approved[paramsHash].expiresAt
    THEN [state |-> [pending |-> state.pending,
                     approved |-> Delete(state.approved, paramsHash)],
          save |-> TRUE, found |-> FALSE, nonce |-> ""]
    ELSE [state |-> [pending |-> state.pending,
                     approved |-> Delete(state.approved, paramsHash)],
          save |-> TRUE, found |-> TRUE,
          nonce |-> state.approved[paramsHash].nonce]

\* A mutant of cleanup: nothing is swept.
cleanupKeep(state, t) == [state |-> state, save |-> FALSE]

\* cleanup on the loaded state: the swept state, saved only when changed
cleanup(state, t) ==
    LET keptP == {n \in DOMAIN state.pending : ~(t > state.pending[n].expiresAt)}
        keptA == {h \in DOMAIN state.approved : ~(t > state.approved[h].expiresAt)}
    IN  [state |-> [pending |-> [n \in keptP |-> state.pending[n]],
                    approved |-> [h \in keptA |-> state.approved[h]]],
         save |-> keptP # DOMAIN state.pending \/ keptA # DOMAIN state.approved]

(***************************************************************************)
(* hook.ts: the before_tool_call handler                                   *)
(***************************************************************************)
\* config.neverBlock || []
NeverBlock(config) == IF config.neverBlock.set THEN config.neverBlock.val ELSE {}

\* config.alwaysBlock || []
AlwaysBlock(config) == IF config.alwaysBlock.set THEN config.alwaysBlock.val ELSE {}

\* A mutant of IsDisabled: the enabled flag is not consulted.
IsDisabledNever(config) == FALSE

\* config.enabled === false
IsDisabled(config) == ~config.enabled

\* A mutant of IsExempt: the exemption list is not consulted.
IsExemptNever(config, toolName) == FALSE

\* neverBlock.includes(toolName)
IsExempt(config, toolName) == toolName \in NeverBlock(config)

\* A mutant of IsForcedApproval: no tool is in the forced-approval set.
IsForcedApprovalNever(config, toolName) == FALSE

\* alwaysBlock.includes(toolName)
IsForcedApproval(config, toolName) == toolName \in AlwaysBlock(config)

LogLine(level, msg) == [level |-> level, msg |-> msg]

\* A mutant of escalate: the info line is not written.
escalateUnlogged(config, file, t, toolName, params, paramsHash, nonce, reason, via, evaluated, log, ok) ==
    [file |-> save(file,
                   createPending(load(file), nonce, paramsHash, toolName, params, t, config),
                   ok),
     outcome |-> "ESCALATE", via |-> via, nonce |-> nonce, reason |-> reason,
     evaluated |-> evaluated, hash |-> paramsHash, log |-> log]

\* escalate(): createPending (load, insert, save), the info line and the
\* GUARDIAN_ANGEL_ESCALATE|nonce|reason denial
escalate(config, file, t, toolName, params, paramsHash, nonce, reason, via, evaluated, log, ok) ==
    [file |-> save(file,
                   createPending(load(file), nonce, paramsHash, toolName, params, t, config),
                   ok),
     outcome |-> "ESCALATE", via |-> via, nonce |-> nonce, reason |-> reason,
     evaluated |-> evaluated, hash |-> paramsHash,
     log |-> log \o <<LogLine("info", <<"[GA] ", toolName, ": escalating (nonce: ",
                                        nonce, ")">>)>>]

\* Steps 4 and 5 of the handler up to the call of escalate: the alwaysBlock
\* list, then evaluate and the switch on its decision
decide(config, toolName, params) ==
    IF IsForcedApproval(config, toolName)
    THEN [outcome |-> "ESCALATE", via |-> "alwaysBlock",
          reason |-> <<"Tool '", toolName,
                       "' requires explicit approval per configuration">>,
          evaluated |-> FALSE, log |-> <<>>]
    ELSE
    Bind(evaluate(toolName, params, config), LAMBDA result :
    Bind(LogLine("debug", <<"[GA] ", toolName, ": clarity=", ToString(result.clarity),
                            " stakes=", ToString(result.stakes),
                            " score=", ToString(result.clarity * result.stakes),
                            " threshold=", ToString(Threshold(config))>>),
         LAMBDA debugLine :
        IF result.decision = "allow"
        THEN [outcome |-> "ALLOW", via |-> "evaluator", reason |-> <<>>,
              evaluated |-> TRUE,
              log |-> <<debugLine,
                        LogLine("debug", <<"[GA] ", toolName, ": virtues aligned (score=",
                            ToString(result.clarity * result.stakes), "), allowing">>)>>]
        ELSE IF result.decision = "block"
        THEN [outcome |-> "BLOCK", via |-> "evaluator", reason |-> result.reason,
              evaluated |-> TRUE,
              log |-> <<LogLine("warn", <<"[GA] ", toolName, ": BLOCKED (">>
                                        \o result.reason \o <<")">>)>>]
        ELSE [outcome |-> "ESCALATE", via |-> "evaluator",
              reason |-> IF result.reason # <<>> THEN result.reason
                         ELSE <<"High-stakes action requires approval">>,
              evaluated |-> TRUE, log |-> <<debugLine>>]))

\* One call of the handler on the persisted file at time t.  nonce is what
\* randomBytes gives if the call escalates; okConsume and okCreate tell
\* whether the writes of consumeApproval and createPending succeed.
beforeToolCall(config, file, t, toolName, params, nonce, okConsume, okCreate) ==
    IF IsDisabled(config)
    THEN [file |-> file, outcome |-> "ALLOW", via |-> "disabled", nonce |-> "",
          reason |-> <<>>, evaluated |-> FALSE, hash |-> <<>>, log |-> <<>>]
    ELSE IF IsExempt(config, toolName)
    THEN [file |-> file, outcome |-> "ALLOW", via |-> "exempt", nonce |-> "",
          reason |-> <<>>, evaluated |-> FALSE, hash |-> <<>>,
          log |-> <<LogLine("debug", <<"[GA] ", toolName, ": exempt, allowing">>)>>]
    ELSE
    Bind(hashParams(toolName, params), LAMBDA paramsHash :
    Bind(consumeApproval(load(file), paramsHash, t), LAMBDA approval :
    Bind(IF approval.save THEN save(file, approval.state, okConsume) ELSE file,
         LAMBDA file1 :
        IF approval.found
        THEN [file |-> file1, outcome |-> "ALLOW", via |-> "approval",
              nonce |-> approval.nonce, reason |-> <<>>, evaluated |-> FALSE,
              hash |-> paramsHash,
              log |-> <<LogLine("info", <<"[GA] ", toolName, ": approved via nonce ",
                                          approval.nonce>>)>>]
        ELSE
        Bind(decide(config, toolName, params), LAMBDA d :
            IF d.outcome = "ESCALATE"
            THEN escalate(config, file1, t, toolName, params, paramsHash, nonce,
                          d.reason, d.via, d.evaluated, d.log, okCreate)
            ELSE [file |-> file1, outcome |-> d.outcome, via |-> d.via,
                  nonce |-> "", reason |-> d.reason, evaluated |-> d.evaluated,
                  hash |-> paramsHash, log |-> d.log]))))

(***************************************************************************)
(* approve-tool.ts: the ga_approve tool                                    *)
(***************************************************************************)
\* execute(): delegates to approvePending and words the answer
execute(config, file, t, nonce, ok) ==
    Bind(approvePending(load(file), nonce, t, config), LAMBDA result :
        [file |-> IF result.save THEN save(file, result.state, ok) ELSE file,
         ok |-> result.ok, error |-> result.error,
         windowSeconds |-> result.windowSeconds,
         hash |-> IF result.ok THEN load(file).pending[nonce].paramsHash ELSE <<>>,
         log |-> IF result.ok
                 THEN <<LogLine("info", <<"[GA] Approved nonce ", nonce>>)>>
                 ELSE <<LogLine("warn", <<"[GA] Approval failed for nonce ", nonce,
                                          ": ", result.error>>)>>])

\* A mutant of handler: every session but s1 has an empty store of its own.
handlerPerSession(config, file, t, event, ctx, nonce, okConsume, okCreate) ==
    beforeToolCall(config, IF ctx.sessionKey = "s1" THEN file ELSE NoFile, t,
                   event.toolName, event.params, nonce, okConsume, okCreate)

\* The handler as the host calls it, async (event, ctx): toolName and params
\* are taken from event; ctx is only handed to evaluate, which does not
\* read it, and the store has no field for it.
handler(config, file, t, event, ctx, nonce, okConsume, okCreate) ==
    beforeToolCall(config, file, t, event.toolName, event.params, nonce,
                   okConsume, okCreate)

\* the handler throws where consumeApproval reads state.approved[paramsHash]
beforeToolCallRaises(config, file, toolName) ==
    /\ ~IsDisabled(config)
    /\ ~IsExempt(config, toolName)
    /\ Raises(load(file), "approved")

\* ga_approve throws where approvePending reads state.pending[nonce]
executeRaises(file) == Raises(load(file), "pending")

\* cleanup throws at Object.entries(state.pending) or
\* Object.entries(state.approved)
cleanupRaises(file) ==
    Raises(load(file), "pending") \/ Raises(load(file), "approved")

(***************************************************************************)
(* The requests and configurations the model draws from                    *)
(***************************************************************************)
Request(toolName, params) == [toolName |-> toolName, params |-> params]

ReqRmRoot == Request("exec", Obj(<< <<"command", Str(<<"r","m"," ","-","r","f"," ","/">>)>> >>))
\* a request with a parameter called toolName
ReqMemory ==
    Request("memory_search", Obj(<< <<"query", Str(<<"r","m"," ","-","r","f"," ","/">>)>>,
                                    <<"toolName", Str(<<"x">>)>> >>))
ReqConfigApply ==
    Request("gateway", Obj(<< <<"action", Str(<<"c","o","n","f","i","g",".","a","p","p","l","y">>)>>,
                              <<"raw", Str(<<"d","e","f","a","u","l","t","M","o","d","e","l">>)>> >>))
Requests == {ReqRmRoot, ReqMemory, ReqConfigApply}

\* the ToolContext of a call: two agents, each in a session of its own
Contexts ==
    {[agentId |-> "main", sessionKey |-> "s1"],
     [agentId |-> "research", sessionKey |-> "s2"]}

\* what randomBytes(4).toString("hex") can give
Nonces == {"a7f3c21b", "0badc0de"}

Unset == [set |-> FALSE, val |-> 0]
UnsetList == [set |-> FALSE, val |-> {}]
List(S) == [set |-> TRUE, val |-> S]

Config(enabled, neverBlock, alwaysBlock) ==
    [enabled |-> enabled, escalationThreshold |-> Unset, pendingTimeoutMs |-> Unset,
     approvalWindowMs |-> Unset, neverBlock |-> neverBlock, alwaysBlock |-> alwaysBlock]

Configs ==
    { Config(TRUE, UnsetList, UnsetList),
      Config(TRUE, List({}), List({"exec", "memory_search"})),
      Config(TRUE, List({"exec"}), List({"exec"})),
      Config(FALSE, UnsetList, UnsetList) }

\* the gateway processes that share the store file
Procs == {1, 2}

\* the number of times the clock is advanced
MaxTicks == 1

(***************************************************************************)
(* State                                                                   *)
(***************************************************************************)
VARIABLES
    config,   \* the plugin configuration (api.pluginConfig)
    file,     \* the persisted store file at storePath
    now,      \* Date.now()
    ticks,    \* how often the clock was advanced
    last,     \* the last call and what it returned and logged
    used,     \* history: per fingerprint, how many requests were allowed by
              \*   an approval since the last successful approve created an
              \*   ApprovedAction for it (2: two or more)
    proc,     \* per process: the store operation in flight and the state
              \*   it has loaded
    issued,   \* history: the nonces stored by createPending and not
              \*   approved since; where sessions are modelled, each
              \*   issued nonce with the session of the denied request
    probe     \* the two requests hashParams or evaluate is applied to, and
              \*   the results

vars == <<config, file, now, ticks, last, used, proc, issued, probe>>

\* where a record with deadline expiresAt stands at time t
Status(present, expiresAt, t) ==
    IF ~present THEN "none" ELSE IF t > expiresAt THEN "expired" ELSE "live"

PendingStatus(state, nonce, t) ==
    Status(nonce \in DOMAIN state.pending,
           IF nonce \in DOMAIN state.pending THEN state.pending[nonce].expiresAt ELSE 0,
           t)

ApprovedStatus(state, paramsHash, t) ==
    Status(paramsHash \in DOMAIN state.approved,
           IF paramsHash \in DOMAIN state.approved
           THEN state.approved[paramsHash].expiresAt ELSE 0,
           t)

\* the fingerprints of the requests
Fingerprints == {hashParams(req.toolName, req.params) : req \in Requests}

NoCall ==
    [op |-> "none", toolName |-> "", params |-> Obj(<<>>), hash |-> <<>>,
     outcome |-> "", via |-> "", nonce |-> "", reason |-> <<>>,
     evaluated |-> FALSE, windowSeconds |-> 0, log |-> <<>>, repeat |-> FALSE,
     had |-> "", session |-> ""]

Idle ==
    [pc |-> "idle", toolName |-> "", params |-> Obj(<<>>), nonce |-> "",
     snap |-> EmptyState]

NoResult == [decision |-> "", reason |-> <<>>, clarity |-> 0, stakes |-> 0]
NoScore == [clarity |-> 0, stakes |-> 0]

NoProbe ==
    [a |-> Request("", Obj(<<>>)), b |-> Request("", Obj(<<>>)),
     done |-> FALSE, hashA |-> <<>>, hashB |-> <<>>,
     evalA |-> NoResult, evalB |-> NoResult, scoreA |-> NoScore, scoreB |-> NoScore]

\* register(): createStore runs cleanup on a store path with no file yet
Init ==
    /\ config \in Configs
    /\ file = NoFile
    /\ now = 0
    /\ ticks = 0
    /\ last = NoCall
    /\ used = [h \in Fingerprints |-> 0]
    /\ proc = [p \in Procs |-> Idle]
    /\ issued = {}
    /\ probe = NoProbe

\* what a gate call leaves in last
GateCall(req, r, had) ==
    [op |-> "gate", toolName |-> req.toolName, params |-> req.params,
     hash |-> r.hash, outcome |-> r.outcome, via |-> r.via,
     nonce |-> r.nonce, reason |-> r.reason, evaluated |-> r.evaluated,
     windowSeconds |-> 0, log |-> r.log,
     repeat |-> /\ last.op = "gate" /\ last.via = "approval"
                /\ last.toolName = req.toolName
                /\ last.params = req.params,
     had |-> had, session |-> ""]

\* what a ga_approve call leaves in last
ApproveCall(nonce, r, had) ==
    [op |-> "approve", toolName |-> "", params |-> Obj(<<>>), hash |-> r.hash,
     outcome |-> IF r.ok THEN "ok" ELSE r.error, via |-> "",
     nonce |-> nonce, reason |-> <<>>, evaluated |-> FALSE,
     windowSeconds |-> r.windowSeconds, log |-> r.log,
     repeat |-> /\ last.op = "approve" /\ last.nonce = nonce
                /\ last.outcome = "ok",
     had |-> had, session |-> ""]

\* the host calls the before_tool_call hook
Gate(req, nonce) ==
    \E r \in {beforeToolCall(config, file, now, req.toolName, req.params, nonce,
                            TRUE, TRUE)} :
        /\ file' = r.file
        /\ last' = GateCall(req, r,
                       IF r.via \in {"disabled", "exempt"} THEN ""
                       ELSE ApprovedStatus(load(file), r.hash, now))
        /\ used' = IF r.via = "approval"
                   THEN [used EXCEPT ![r.hash] = Min(@ + 1, 2)] ELSE used
        /\ UNCHANGED <<config, now, ticks, proc, issued, probe>>

\* the agent calls ga_approve (registered only when the plugin is enabled)
Approve(nonce) ==
    \E r \in {execute(config, file, now, nonce, TRUE)} :
        /\ config.enabled
        /\ file' = r.file
        /\ last' = ApproveCall(nonce, r, PendingStatus(load(file), nonce, now))
        /\ used' = IF r.ok THEN [used EXCEPT ![r.hash] = 0] ELSE used
        /\ UNCHANGED <<config, now, ticks, proc, issued, probe>>

\* the process restarts: register() creates the store again, which sweeps
Restart ==
    \E c \in {cleanup(load(file), now)} :
        /\ config.enabled
        /\ file' = IF c.save THEN save(file, c.state, TRUE) ELSE file
        /\ last' = [NoCall EXCEPT !.op = "restart",
                                  !.had = IF c.save THEN "expired" ELSE ""]
        /\ UNCHANGED <<config, now, ticks, used, proc, issued, probe>>

\* time passes
Tick(d) ==
    /\ ticks < MaxTicks
    /\ d > 0
    /\ now' = now + d
    /\ ticks' = ticks + 1
    /\ UNCHANGED <<config, file, last, used, proc, issued, probe>>

\* to the end of an approval window, to the deadline of a pending
\* escalation, and just past it
TickSteps ==
    {ApprovalWindowMs(config), PendingTimeoutMs(config), PendingTimeoutMs(config) + 1}

Next ==
    \/ \E req \in Requests : \E nonce \in Nonces : Gate(req, nonce)
    \/ \E nonce \in Nonces : Approve(nonce)
    \/ Restart
    \/ \E d \in TickSteps : Tick(d)

Spec == Init /\ [][Next]_vars

(***************************************************************************)
(* Several gateway processes on one store file.  Inside one process the    *)
(* handler runs to completion; between processes the readFileSync of load  *)
(* and the writeFileSync of save of one store operation are separate       *)
(* steps, and another process can run in between.                          *)
(***************************************************************************)
\* the requests the processes make, and the nonce randomBytes gives each
MPRequests == {ReqConfigApply, ReqMemory}
MPNonce(p) == IF p = 1 THEN "a7f3c21b" ELSE "0badc0de"

InitMP ==
    /\ config = Config(TRUE, UnsetList, UnsetList)
    /\ file = NoFile
    /\ now = 0
    /\ ticks = 0
    /\ last = NoCall
    /\ used = [h \in Fingerprints |-> 0]
    /\ proc = [p \in Procs |-> Idle]
    /\ issued = {}
    /\ probe = NoProbe

\* handler steps 1 to 3, up to the load() of consumeApproval
MPGateLoad(p, req) ==
    /\ proc[p].pc = "idle"
    /\ ~IsExempt(config, req.toolName)
    /\ proc' = [proc EXCEPT ![p] = [Idle EXCEPT !.pc = "consume",
                                                !.toolName = req.toolName,
                                                !.params = req.params,
                                                !.snap = load(file)]]
    /\ UNCHANGED <<config, file, now, ticks, last, used, issued, probe>>

\* the rest of consumeApproval with its save(), then steps 4 and 5 up to
\* the call of escalate
MPGateConsume(p) ==
    /\ proc[p].pc = "consume"
    /\ \E paramsHash \in {hashParams(proc[p].toolName, proc[p].params)} :
       \E approval \in {consumeApproval(proc[p].snap, paramsHash, now)} :
       \E d \in {decide(config, proc[p].toolName, proc[p].params)} :
            /\ file' = IF approval.save THEN save(file, approval.state, TRUE) ELSE file
            /\ used' = IF approval.found
                       THEN [used EXCEPT ![paramsHash] = Min(@ + 1, 2)] ELSE used
            /\ proc' = IF ~approval.found /\ d.outcome = "ESCALATE"
                       THEN [proc EXCEPT ![p].pc = "escalate"]
                       ELSE [proc EXCEPT ![p] = Idle]
    /\ UNCHANGED <<config, now, ticks, last, issued, probe>>

\* escalate: the load() and the randomBytes of createPending
MPEscalateLoad(p, nonce) ==
    /\ proc[p].pc = "escalate"
    /\ proc' = [proc EXCEPT ![p].pc = "create", ![p].nonce = nonce,
                            ![p].snap = load(file)]
    /\ UNCHANGED <<config, file, now, ticks, last, used, issued, probe>>

\* the rest of createPending with its save(), and the ESCALATE denial
MPEscalateSave(p) ==
    /\ proc[p].pc = "create"
    /\ file' = save(file,
                    createPending(proc[p].snap, proc[p].nonce,
                                  hashParams(proc[p].toolName, proc[p].params),
                                  proc[p].toolName, proc[p].params, now, config),
                    TRUE)
    /\ issued' = issued \cup {proc[p].nonce}
    /\ proc' = [proc EXCEPT ![p] = Idle]
    /\ UNCHANGED <<config, now, ticks, last, used, probe>>

\* ga_approve: the load() of approvePending
MPApproveLoad(p, nonce) ==
    /\ proc[p].pc = "idle"
    /\ proc' = [proc EXCEPT ![p] = [Idle EXCEPT !.pc = "approve", !.nonce = nonce,
                                                !.snap = load(file)]]
    /\ UNCHANGED <<config, file, now, ticks, last, used, issued, probe>>

\* the rest of approvePending with its save(), and the answer
MPApproveSave(p) ==
    /\ proc[p].pc = "approve"
    /\ \E r \in {approvePending(proc[p].snap, proc[p].nonce, now, config)} :
            /\ file' = IF r.save THEN save(file, r.state, TRUE) ELSE file
            /\ used' = IF r.ok
                       THEN [used EXCEPT ![proc[p].snap.pending[proc[p].nonce].paramsHash] = 0]
                       ELSE used
            /\ issued' = IF r.ok THEN issued \ {proc[p].nonce} ELSE issued
    /\ proc' = [proc EXCEPT ![p] = Idle]
    /\ UNCHANGED <<config, now, ticks, last, probe>>

NextMP ==
    \/ \E p \in Procs : \E req \in MPRequests : MPGateLoad(p, req)
    \/ \E p \in Procs : MPGateConsume(p)
    \/ \E p \in Procs : MPEscalateLoad(p, MPNonce(p))
    \/ \E p \in Procs : MPEscalateSave(p)
    \/ \E p \in Procs : \E nonce \in Nonces : MPApproveLoad(p, nonce)
    \/ \E p \in Procs : MPApproveSave(p)

SpecMP == InitMP /\ [][NextMP]_vars

(***************************************************************************)
(* hashParams applied to pairs of requests                                 *)
(***************************************************************************)
ProbeTools == {"exec", "gateway"}

ProbeParams ==
    { Obj(<< <<"command", Str(<<"l","s">>)>> >>),
      Obj(<< <<"command", Str(<<"r","m"," ","-","r","f"," ","/">>)>> >>),
      Obj(<< <<"action", Str(<<"c","o","n","f","i","g",".","a","p","p","l","y">>)>>, <<"raw", Str(<<"d","e","f","a","u","l","t","M","o","d","e","l">>)>> >>),
      Obj(<< <<"action", Str(<<"c","o","n","f","i","g",".","a","p","p","l","y">>)>>, <<"raw", Str(<<"x">>)>> >>),
      Obj(<< <<"target", Obj(<< <<"to", Str(<<"a">>)>> >>)>> >>),
      Obj(<< <<"target", Obj(<< <<"to", Str(<<"b">>)>> >>)>> >>),
      Obj(<< <<"command", Str(<<"l","s">>)>>,
             <<"params", Obj(<< <<"command", Str(<<"l","s">>)>> >>)>> >>),
      Obj(<< <<"command", Str(<<"r","m">>)>>,
             <<"params", Obj(<< <<"command", Str(<<"l","s">>)>> >>)>> >>),
      Obj(<< <<"command", Str(<<"l","s">>)>>, <<"toolName", Str(<<"x">>)>> >>),
      Obj(<< <<"params", Obj(<< <<"params", Str(<<"p">>)>>,
                                <<"toolName", Str(<<"y">>)>> >>)>>,
             <<"toolName", Str(<<"x">>)>> >>),
      Obj(<< <<"toolName", Str(<<"x">>)>>,
             <<"params", Obj(<< <<"toolName", Str(<<"y">>)>>,
                                <<"params", Str(<<"p">>)>> >>)>> >>) }

ProbeRequests == {Request(tn, ps) : tn \in ProbeTools, ps \in ProbeParams}

InitHash ==
    /\ config \in {Config(TRUE, UnsetList, UnsetList)}
    /\ file = NoFile
    /\ now = 0
    /\ ticks = 0
    /\ last = NoCall
    /\ used = [h \in Fingerprints |-> 0]
    /\ proc = [p \in Procs |-> Idle]
    /\ issued = {}
    /\ probe \in {[NoProbe EXCEPT !.a = ra, !.b = rb] :
                     ra \in ProbeRequests, rb \in ProbeRequests}

\* store.hashParams called for each of the two requests
HashBoth ==
    /\ ~probe.done
    /\ probe' = [probe EXCEPT !.done = TRUE,
                              !.hashA = hashParams(probe.a.toolName, probe.a.params),
                              !.hashB = hashParams(probe.b.toolName, probe.b.params)]
    /\ UNCHANGED <<config, file, now, ticks, last, used, proc, issued>>

NextHash == HashBoth

SpecHash == InitHash /\ [][NextHash]_vars

(***************************************************************************)
(* The store file under faults: writeFileSync can fail, and the file can   *)
(* be removed or replaced by other content while the plugin runs.          *)
(***************************************************************************)
\* what the file can be replaced by: nothing, unreadable or non-JSON
\* content, JSON without the two mappings
DamagedFiles ==
    {NoFile, [exists |-> TRUE, state |-> Unparsable],
     [exists |-> TRUE, state |-> NoMappings]}

\* register() got past createStore, so the hook and the tool are registered
Registered == ~(last.op = "restart" /\ last.outcome = "TypeError")

\* what a call that threw leaves in last
Thrown(op, toolName, params, nonce) ==
    [NoCall EXCEPT !.op = op, !.toolName = toolName, !.params = params,
                   !.nonce = nonce, !.outcome = "TypeError"]

InitIO ==
    /\ config = Config(TRUE, UnsetList, UnsetList)
    /\ file = NoFile
    /\ now = 0
    /\ ticks = 0
    /\ last = NoCall
    /\ used = [h \in Fingerprints |-> 0]
    /\ proc = [p \in Procs |-> Idle]
    /\ issued = {}
    /\ probe = NoProbe

\* the hook is called; the writes of consumeApproval and createPending
\* succeed or fail
IOGate(req, nonce, okConsume, okCreate) ==
    /\ Registered
    /\ IF beforeToolCallRaises(config, file, req.toolName)
       THEN /\ last' = Thrown("gate", req.toolName, req.params, "")
            /\ UNCHANGED <<file, used>>
       ELSE \E r \in {beforeToolCall(config, file, now, req.toolName, req.params,
                                     nonce, okConsume, okCreate)} :
                /\ file' = r.file
                /\ last' = GateCall(req, r, ApprovedStatus(load(file), r.hash, now))
                /\ used' = IF r.via = "approval"
                           THEN [used EXCEPT ![r.hash] = Min(@ + 1, 2)] ELSE used
    /\ UNCHANGED <<config, now, ticks, proc, issued, probe>>

\* ga_approve is called; the write of approvePending succeeds or fails
IOApprove(nonce, ok) ==
    /\ Registered
    /\ IF executeRaises(file)
       THEN /\ last' = Thrown("approve", "", Obj(<<>>), nonce)
            /\ UNCHANGED <<file, used>>
       ELSE \E r \in {execute(config, file, now, nonce, ok)} :
                /\ file' = r.file
                /\ last' = ApproveCall(nonce, r, PendingStatus(load(file), nonce, now))
                /\ used' = IF r.ok THEN [used EXCEPT ![r.hash] = 0] ELSE used
    /\ UNCHANGED <<config, now, ticks, proc, issued, probe>>

\* the process restarts: createStore runs cleanup inside register()
IORestart ==
    /\ IF cleanupRaises(file)
       THEN /\ last' = Thrown("restart", "", Obj(<<>>), "")
            /\ UNCHANGED file
       ELSE \E c \in {cleanup(load(file), now)} :
                /\ file' = IF c.save THEN save(file, c.state, TRUE) ELSE file
                /\ last' = [NoCall EXCEPT !.op = "restart"]
    /\ UNCHANGED <<config, now, ticks, used, proc, issued, probe>>

\* the file is removed or replaced from outside the plugin
Damage(f) ==
    /\ file # f
    /\ file' = f
    /\ last' = IF Registered THEN [NoCall EXCEPT !.op = "damage"] ELSE last
    /\ UNCHANGED <<config, now, ticks, used, proc, issued, probe>>

NextIO ==
    \/ \E req \in Requests : \E nonce \in Nonces : \E okConsume \in BOOLEAN :
         \E okCreate \in BOOLEAN : IOGate(req, nonce, okConsume, okCreate)
    \/ \E nonce \in Nonces : \E ok \in BOOLEAN : IOApprove(nonce, ok)
    \/ IORestart
    \/ \E f \in DamagedFiles : Damage(f)

SpecIO == InitIO /\ [][NextIO]_vars

(***************************************************************************)
(* The plugin under settings outside the ranges of the manifest's          *)
(* configSchema                                                            *)
(***************************************************************************)
Num(n) == [set |-> TRUE, val |-> n]

\* the ranges of escalationThreshold, pendingTimeoutMs and approvalWindowMs
\* in the configSchema
ThresholdRange == 1..100
PendingTimeoutRange == 60000..600000
ApprovalWindowRange == 10000..120000

\* one setting outside its range (just outside, or negative), the rest
\* unset
OutOfRangeConfigs ==
    { [Config(TRUE, UnsetList, UnsetList) EXCEPT !.escalationThreshold = Num(101)],
      [Config(TRUE, UnsetList, UnsetList) EXCEPT !.pendingTimeoutMs = Num(59999)],
      [Config(TRUE, UnsetList, UnsetList) EXCEPT !.pendingTimeoutMs = Num(-1)],
      [Config(TRUE, UnsetList, UnsetList) EXCEPT !.approvalWindowMs = Num(120001)] }

InitConfig ==
    /\ config \in OutOfRangeConfigs
    /\ file = NoFile
    /\ now = 0
    /\ ticks = 0
    /\ last = NoCall
    /\ used = [h \in Fingerprints |-> 0]
    /\ proc = [p \in Procs |-> Idle]
    /\ issued = {}
    /\ probe = NoProbe

SpecConfig == InitConfig /\ [][Next]_vars

(***************************************************************************)
(* One long-running process: the store is initialized once, the clock      *)
(* advances and the host keeps calling the hook.  Whether ga_approve is    *)
(* ever called is up to the agent.                                         *)
(***************************************************************************)
InitLive ==
    /\ config = Config(TRUE, UnsetList, UnsetList)
    /\ file = NoFile
    /\ now = 0
    /\ ticks = 0
    /\ last = NoCall
    /\ used = [h \in Fingerprints |-> 0]
    /\ proc = [p \in Procs |-> Idle]
    /\ issued = {}
    /\ probe = NoProbe

NextLive ==
    \/ \E req \in Requests : \E nonce \in Nonces : Gate(req, nonce)
    \/ \E nonce \in Nonces : Approve(nonce)
    \/ \E d \in TickSteps : Tick(d)

SpecLive ==
    /\ InitLive
    /\ [][NextLive]_vars
    /\ WF_vars(\E d \in TickSteps : Tick(d))
    /\ []<><<\E req \in Requests : \E nonce \in Nonces : Gate(req, nonce)>>_vars

(***************************************************************************)
(* evaluate, assessClarity and assessStakes applied to pairs of requests   *)
(***************************************************************************)
ExecRequest(cmd) == Request("exec", Obj(<< <<"command", Str(cmd)>> >>))

EvalRequests ==
    { ExecRequest(<<"l","s">>),
      ExecRequest(<<"r","m"," ","x">>),
      ExecRequest(<<"r","m"," ","x",";","k","i","l","l"," ","-","i","n","t"," ","1">>),
      ExecRequest(<<"s","u","d","o"," ","r","m"," ","x">>),
      ExecRequest(<<"s","u","d","o"," ","r","m"," ","x","|","d","a","l","l","-","e">>),
      ExecRequest(<<"r","m"," ","-","r","f"," ","/">>),
      ExecRequest(<<"r","m"," ","-","r","f"," ","/",";","r","m"," ","-","r","f"," ","/","t","m","p">>),
      ReqMemory,
      ReqConfigApply,
      Request("gateway", Obj(<< <<"action", Str(<<"c","o","n","f","i","g",".","a","p","p","l","y">>)>>,
                                <<"raw", Str(<<"x">>)>> >>)) }

\* escalationThreshold unset, set to the scores of ls (4 * 4), rm x (6 * 7)
\* and config.apply with defaultModel (9 * 9), and set to 1 and to 101
EvalConfigs ==
    {[Config(TRUE, UnsetList, UnsetList) EXCEPT !.escalationThreshold = th] :
        th \in {Unset, Num(1), Num(16), Num(42), Num(81), Num(101)}}

InitEval ==
    /\ config \in EvalConfigs
    /\ file = NoFile
    /\ now = 0
    /\ ticks = 0
    /\ last = NoCall
    /\ used = [h \in Fingerprints |-> 0]
    /\ proc = [p \in Procs |-> Idle]
    /\ issued = {}
    /\ probe \in {[NoProbe EXCEPT !.a = ra, !.b = rb] :
                     ra \in EvalRequests, rb \in EvalRequests}

\* evaluate, assessClarity and assessStakes called for each of the two
\* requests
EvaluateBoth ==
    /\ ~probe.done
    /\ probe' = [probe EXCEPT
            !.done = TRUE,
            !.evalA = evaluate(probe.a.toolName, probe.a.params, config),
            !.evalB = evaluate(probe.b.toolName, probe.b.params, config),
            !.scoreA = [clarity |-> assessClarity(probe.a.toolName, probe.a.params),
                        stakes |-> assessStakes(probe.a.toolName, probe.a.params)],
            !.scoreB = [clarity |-> assessClarity(probe.b.toolName, probe.b.params),
                        stakes |-> assessStakes(probe.b.toolName, probe.b.params)]]
    /\ UNCHANGED <<config, file, now, ticks, last, used, proc, issued>>

NextEval == EvaluateBoth

SpecEval == InitEval /\ [][NextEval]_vars

(***************************************************************************)
(* Requests from two sessions: the host passes the ToolContext of the      *)
(* calling agent with every request.                                       *)
(***************************************************************************)
InitCtx ==
    /\ config = Config(TRUE, UnsetList, UnsetList)
    /\ file = NoFile
    /\ now = 0
    /\ ticks = 0
    /\ last = NoCall
    /\ used = [h \in Fingerprints |-> 0]
    /\ proc = [p \in Procs |-> Idle]
    /\ issued = {}
    /\ probe = NoProbe

\* the host calls the hook for a request of the session ctx.sessionKey
CtxGate(req, ctx, nonce) ==
    \E r \in {handler(config, file, now, req, ctx, nonce, TRUE, TRUE)} :
        /\ file' = r.file
        /\ last' = [GateCall(req, r, ApprovedStatus(load(file), r.hash, now))
                       EXCEPT !.session = ctx.sessionKey]
        /\ used' = IF r.via = "approval"
                   THEN [used EXCEPT ![r.hash] = Min(@ + 1, 2)] ELSE used
        /\ issued' = IF r.outcome = "ESCALATE"
                     THEN {i \in issued : i[1] # r.nonce}
                            \cup {<<r.nonce, ctx.sessionKey>>}
                     ELSE issued
        /\ UNCHANGED <<config, now, ticks, proc, probe>>

NextCtx ==
    \/ \E req \in Requests : \E ctx \in Contexts : \E nonce \in Nonces :
           CtxGate(req, ctx, nonce)
    \/ \E nonce \in Nonces : Approve(nonce)

SpecCtx == InitCtx /\ [][NextCtx]_vars

(***************************************************************************)
(* Properties                                                              *)
(***************************************************************************)
\* C1: after one successful approve(nonce), at most one later gate request
\* is allowed through the approval-consumption step; the next identical
\* request, with no approve in between, is not allowed via an approval and
\* is decided by the forced-approval step or the Evaluator.
OneApprovalOneAllow ==
    /\ \A f \in DOMAIN used : used[f] <= 1
    /\ (last.op = "gate" /\ last.repeat) => last.via \in {"alwaysBlock", "evaluator"}

\* an identical request right after an approval-based ALLOW was escalated anew
OneApprovalOneAllowSeen ==
    /\ last.op = "gate" /\ last.repeat
    /\ last.outcome = "ESCALATE"
    /\ used[last.hash] = 1

\* C2: an approval obtained for an escalated request R never lets the gate
\* allow, through approval consumption, a request R' with another tool name
\* or other params: after approve of R's nonce a gate call with R' is not
\* allowed by that approval and the approval for R stays in the store.
ApprovalBoundToRequest ==
    \A n \in DOMAIN load(file).pending : \A req \in Requests :
        LET pending == load(file).pending[n]
            approval == execute(config, file, now, n, TRUE)
            r == beforeToolCall(config, approval.file, now, req.toolName, req.params,
                                n, TRUE, TRUE)
        IN  ( /\ config.enabled
              /\ approval.ok
              /\ ~IsExempt(config, req.toolName)
              /\ (req.toolName # pending.toolName \/ req.params # pending.params) )
            => /\ ~(r.via = "approval" /\ r.nonce = n)
               /\ pending.paramsHash \in DOMAIN load(r.file).approved

\* two parameter mappings with the same keys that differ in the value of
\* exactly one key
OneValueDiffers(p, q) ==
    /\ p.t = "obj" /\ q.t = "obj"
    /\ Len(p.v) = Len(q.v)
    /\ \A i \in 1..Len(p.v) : p.v[i][1] = q.v[i][1]
    /\ Cardinality({i \in 1..Len(p.v) : p.v[i][2] # q.v[i][2]}) = 1

\* C3: hashParams is sensitive to content: two parameter mappings that
\* differ in the value of a single key, under the same tool name, and two
\* different tool names with the same params, get different fingerprints.
HashSensitiveToContent ==
    ( /\ probe.done
      /\ \/ /\ probe.a.toolName = probe.b.toolName
            /\ OneValueDiffers(probe.a.params, probe.b.params)
         \/ /\ probe.a.toolName # probe.b.toolName
            /\ probe.a.params = probe.b.params )
    => probe.hashA # probe.hashB

\* C4: with the gate enabled and the tool not exempt, a request the
\* Intrinsic-Evil Detector matches is never ALLOWed and never ESCALATEd,
\* whatever the store holds and whatever alwaysBlock lists: it is BLOCKed
\* and no nonce is issued for it.
IntrinsicEvilAlwaysBlocked ==
    ( /\ last.op = "gate"
      /\ config.enabled
      /\ last.toolName \notin NeverBlock(config)
      /\ checkIntrinsicEvil(last.toolName, last.params) # NoReason )
    => last.outcome = "BLOCK" /\ last.nonce = ""

\* C5: with gate calls of several processes overlapping on one store file,
\* one approval yields at most one ALLOW: two calls never both consume the
\* same ApprovedAction.
OneApprovalOneAllowConcurrent ==
    \A f \in DOMAIN used : ~(used[f] >= 2)

\* C6: every store mutation runs its load-mutate-save cycle atomically with
\* respect to the others, so no update is lost: every pending escalation
\* that createPending stored and that was not approved since is in the
\* store.
NoLostUpdate ==
    \A n \in issued : n \in DOMAIN load(file).pending

\* C7: approve(nonce) fails with NotFound when the store has no pending
\* escalation with that nonce, and leaves the store unchanged; of two
\* approve calls in a row with the nonce of a live pending escalation the
\* first succeeds and the second fails with NotFound.
ApproveUnknownNonceNotFound ==
    /\ \A n \in Nonces :
        LET r == execute(config, file, now, n, TRUE)
            r2 == execute(config, r.file, now, n, TRUE)
        IN  /\ PendingStatus(load(file), n, now) = "none"
                => ~r.ok /\ r.error = "NotFound" /\ r.file = file
            /\ PendingStatus(load(file), n, now) = "live"
                => r.ok /\ ~r2.ok /\ r2.error = "NotFound" /\ r2.file = r.file
    /\ (last.op = "approve" /\ last.had = "none") => last.outcome = "NotFound"
    /\ (last.op = "approve" /\ last.had = "live") => last.outcome = "ok"
    /\ (last.op = "approve" /\ last.repeat) => last.outcome = "NotFound"

\* the second of two approve calls in a row failed with NotFound
ApproveTwiceSeen ==
    last.op = "approve" /\ last.repeat /\ last.outcome = "NotFound"

\* C8: approve(nonce) on a pending escalation with now > expiresAt fails
\* with Expired, removes the pending record and creates no ApprovedAction;
\* at now = expiresAt the approval still succeeds.
ApproveExpiredFails ==
    /\ \A n \in DOMAIN load(file).pending :
        LET pending == load(file).pending[n]
            r == execute(config, file, now, n, TRUE)
        IN  /\ now > pending.expiresAt
                => /\ ~r.ok /\ r.error = "Expired"
                   /\ n \notin DOMAIN load(r.file).pending
                   /\ load(r.file).approved = load(file).approved
            /\ now = pending.expiresAt
                => /\ r.ok
                   /\ pending.paramsHash \in DOMAIN load(r.file).approved
    /\ (last.op = "approve" /\ last.had = "expired")
        => last.outcome = "Expired" /\ last.nonce \notin DOMAIN load(file).pending

\* an approve call came after the deadline and failed with Expired
ApproveExpiredSeen ==
    /\ last.op = "approve" /\ last.had = "expired"
    /\ last.outcome = "Expired"
    /\ now > PendingTimeoutMs(config)

\* the store file without the ApprovedAction of fingerprint paramsHash
WithoutApproval(f, paramsHash) ==
    save(f, [pending |-> load(f).pending,
             approved |-> Delete(load(f).approved, paramsHash)], TRUE)

\* C9: a gate request that reaches the approval step and whose fingerprint
\* has an ApprovedAction with now > expiresAt is not allowed by the
\* approval: consumeApproval returns none, the expired record is removed,
\* and the outcome is the one the request gets with no approval record
\* (forced-approval step, then Evaluator).
ExpiredApprovalIgnored ==
    /\ \A req \in Requests : \A nonce \in Nonces :
        LET paramsHash == hashParams(req.toolName, req.params)
            r == beforeToolCall(config, file, now, req.toolName, req.params,
                                nonce, TRUE, TRUE)
            r0 == beforeToolCall(config, WithoutApproval(file, paramsHash), now,
                                 req.toolName, req.params, nonce, TRUE, TRUE)
        IN  ( /\ config.enabled
              /\ req.toolName \notin NeverBlock(config)
              /\ ApprovedStatus(load(file), paramsHash, now) = "expired" )
            => /\ ~consumeApproval(load(file), paramsHash, now).found
               /\ paramsHash \notin DOMAIN load(r.file).approved
               /\ r.via \in {"alwaysBlock", "evaluator"}
               /\ r = r0
    /\ (last.op = "gate" /\ last.had = "expired")
        => /\ last.via \in {"alwaysBlock", "evaluator"}
           /\ last.hash \notin DOMAIN load(file).approved

\* a gate call found an expired approval for its fingerprint
ExpiredApprovalSeen ==
    /\ last.op = "gate" /\ last.had = "expired"
    /\ last.via \in {"alwaysBlock", "evaluator"}

\* C10: for every tool in the configured exemption set (neverBlock) and
\* every params the enabled gate returns ALLOW and does not invoke the
\* Evaluator, also when the tool is in alwaysBlock as well and when the
\* params match the Intrinsic-Evil Detector.
ExemptToolAllowed ==
    ( /\ last.op = "gate"
      /\ config.enabled
      /\ last.toolName \in NeverBlock(config) )
    => last.outcome = "ALLOW" /\ last.via = "exempt" /\ ~last.evaluated

\* an intrinsically evil request for a tool in both lists was allowed
ExemptToolAllowedSeen ==
    /\ last.op = "gate"
    /\ config.enabled
    /\ last.toolName \in NeverBlock(config)
    /\ last.toolName \in AlwaysBlock(config)
    /\ checkIntrinsicEvil(last.toolName, last.params) # NoReason
    /\ last.outcome = "ALLOW"

\* C11: a gate request for an exempt tool leaves the store as it is: the
\* handler returns before any fingerprint is computed or looked up, a live
\* ApprovedAction with the request's fingerprint stays unconsumed, and no
\* PendingEscalation is created.
ExemptLeavesStore ==
    /\ \A req \in Requests : \A nonce \in Nonces :
        LET r == beforeToolCall(config, file, now, req.toolName, req.params,
                                nonce, TRUE, TRUE)
        IN  (config.enabled /\ req.toolName \in NeverBlock(config))
            => r.file = file /\ r.hash = <<>> /\ r.nonce = ""
    /\ ( /\ last.op = "gate"
         /\ config.enabled
         /\ last.toolName \in NeverBlock(config) )
        => last.hash = <<>> /\ last.had = "" /\ last.nonce = ""

\* an exempt request was allowed while a live ApprovedAction with its
\* fingerprint was in the store, and the record is still there
ExemptLeavesStoreSeen ==
    /\ last.op = "gate"
    /\ config.enabled
    /\ last.toolName \in NeverBlock(config)
    /\ last.outcome = "ALLOW"
    /\ ApprovedStatus(load(file), hashParams(last.toolName, last.params), now) = "live"

\* C12: with enabled = false every gate request returns ALLOW, and neither
\* the store file nor the log is written.
DisabledAllowsAll ==
    /\ \A req \in Requests : \A nonce \in Nonces :
        LET r == beforeToolCall(config, file, now, req.toolName, req.params,
                                nonce, TRUE, TRUE)
        IN  ~config.enabled
            => r.outcome = "ALLOW" /\ r.file = file /\ r.log = <<>>
    /\ (last.op = "gate" /\ ~config.enabled)
        => /\ last.outcome = "ALLOW" /\ last.log = <<>> /\ ~last.evaluated
           /\ file = NoFile

\* the disabled gate allowed an intrinsically evil request
DisabledAllowsAllSeen ==
    /\ last.op = "gate"
    /\ ~config.enabled
    /\ checkIntrinsicEvil(last.toolName, last.params) # NoReason
    /\ last.outcome = "ALLOW"
    /\ file = NoFile

\* C13: when writing the store file fails, the operation is not reported as
\* successful: an ESCALATE denial carries a nonce only when its
\* PendingEscalation is in the file, and ga_approve answers ok with a
\* window only when the ApprovedAction is in the file and the pending
\* record is gone from it.
WriteFailureNotSuccess ==
    /\ (last.op = "gate" /\ last.outcome = "ESCALATE")
        => /\ last.nonce \in DOMAIN load(file).pending
           /\ load(file).pending[last.nonce].paramsHash = last.hash
    /\ (last.op = "approve" /\ last.outcome = "ok")
        => /\ last.hash \in DOMAIN load(file).approved
           /\ load(file).approved[last.hash].nonce = last.nonce
           /\ last.nonce \notin DOMAIN load(file).pending

\* C14: when the store file is absent, unreadable, not valid JSON, or valid
\* JSON without the pending and approved mappings, what load returns is the
\* empty document and no gate or approve call and no store initialization
\* raises.
DamagedFileReadsEmpty ==
    /\ file \in DamagedFiles => load(file) = EmptyState
    /\ last.outcome # "TypeError"

\* the configuration with every setting outside its documented range
\* replaced by its default
Defaulted(c) ==
    [c EXCEPT !.escalationThreshold =
                  IF @.set /\ @.val \notin ThresholdRange THEN Unset ELSE @,
              !.pendingTimeoutMs =
                  IF @.set /\ @.val \notin PendingTimeoutRange THEN Unset ELSE @,
              !.approvalWindowMs =
                  IF @.set /\ @.val \notin ApprovalWindowRange THEN Unset ELSE @]

\* C15: a setting outside its documented range behaves as its default: the
\* Evaluator's decision is the one under threshold 36 (so no request that
\* escalates under the default is allowed), a pending escalation lives
\* 300000 ms and an approval 30000 ms.
OutOfRangeBehavesAsDefault ==
    /\ (last.op = "gate" /\ last.via = "evaluator")
        => last.outcome = decide(Defaulted(config), last.toolName, last.params).outcome
    /\ (last.op = "gate" /\ last.outcome = "ESCALATE")
        => LET p == load(file).pending[last.nonce]
           IN  p.expiresAt - p.createdAt = PendingTimeoutMs(Defaulted(config))
    /\ (last.op = "approve" /\ last.outcome = "ok")
        => LET a == load(file).approved[last.hash]
           IN  a.expiresAt - a.approvedAt = ApprovalWindowMs(Defaulted(config))

\* C16: in a running process (no restart) in which time advances and the
\* gate keeps receiving requests, every stored record is eventually
\* removed: a PendingEscalation or ApprovedAction whose deadline has passed
\* does not stay in the store forever.
EveryRecordRemoved ==
    /\ \A n \in Nonces :
        (PendingStatus(load(file), n, now) = "expired")
            ~> (n \notin DOMAIN load(file).pending)
    /\ \A h \in Fingerprints :
        (ApprovedStatus(load(file), h, now) = "expired")
            ~> (h \notin DOMAIN load(file).approved)

\* C17: each fingerprint has at most one live record across both tables:
\* never two live PendingEscalations with the same fingerprint, and never a
\* live PendingEscalation together with a live ApprovedAction for it.
OneLiveRecordPerFingerprint ==
    LET state == load(file)
        live == {n \in DOMAIN state.pending : PendingStatus(state, n, now) = "live"}
    IN  /\ \A n \in live : \A m \in live :
            state.pending[n].paramsHash = state.pending[m].paramsHash => n = m
        /\ \A n \in live :
            ApprovedStatus(state, state.pending[n].paramsHash, now) # "live"

\* C18: a live PendingEscalation leaves the store only by a successful
\* approve of its nonce (expiry aside): no other step, in particular no
\* later escalation, removes it or overwrites it.
LivePendingKept ==
    [][\A n \in DOMAIN load(file).pending :
          PendingStatus(load(file), n, now) = "live"
          => \/ /\ n \in DOMAIN load(file').pending
                /\ load(file').pending[n] = load(file).pending[n]
             \/ /\ last'.op = "approve" /\ last'.nonce = n /\ last'.outcome = "ok"
                /\ n \notin DOMAIN load(file').pending]_vars

\* C19: a live ApprovedAction leaves the store only by being consumed by a
\* request with its fingerprint (expiry aside): no approve of another nonce
\* replaces it or changes its nonce or expiresAt.
LiveApprovalKept ==
    [][\A h \in DOMAIN load(file).approved :
          ApprovedStatus(load(file), h, now) = "live"
          => \/ /\ h \in DOMAIN load(file').approved
                /\ load(file').approved[h] = load(file).approved[h]
             \/ /\ last'.op = "gate" /\ last'.via = "approval" /\ last'.hash = h
                /\ h \notin DOMAIN load(file').approved]_vars

\* C20: with the default threshold 36 a gateway request with action
\* config.apply and raw containing defaultModel, for which no approval is
\* live, is denied with ESCALATE and a nonce; ga_approve of that nonce
\* within pendingTimeoutMs (up to the deadline itself) succeeds; the
\* identical request within approvalWindowMs (up to the end of the window)
\* is then ALLOWed by that approval; and the same request once more is
\* ESCALATEd again with a new pending record.
ConfigApplyFlow ==
    /\ \A n1 \in Nonces :
        LET req == ReqConfigApply
            paramsHash == hashParams(req.toolName, req.params)
            tApprove == now + PendingTimeoutMs(config)
            tRetry == tApprove + ApprovalWindowMs(config)
        IN  ( /\ config.enabled
              /\ ~config.escalationThreshold.set
              /\ req.toolName \notin NeverBlock(config)
              /\ ApprovedStatus(load(file), paramsHash, now) # "live" )
            => Bind(beforeToolCall(config, file, now, req.toolName, req.params,
                                   n1, TRUE, TRUE), LAMBDA r1 :
               Bind(execute(config, r1.file, tApprove, n1, TRUE), LAMBDA a :
               Bind(beforeToolCall(config, a.file, tRetry, req.toolName,
                                   req.params, n1, TRUE, TRUE), LAMBDA r2 :
                   /\ r1.outcome = "ESCALATE" /\ r1.nonce = n1
                   /\ a.ok /\ a.hash = paramsHash
                   /\ r2.outcome = "ALLOW" /\ r2.via = "approval" /\ r2.nonce = n1
                   /\ \A n2 \in Nonces :
                       Bind(beforeToolCall(config, r2.file, tRetry, req.toolName,
                                           req.params, n2, TRUE, TRUE), LAMBDA r3 :
                           /\ r3.outcome = "ESCALATE" /\ r3.nonce = n2
                           /\ PendingStatus(load(r3.file), n2, tRetry) = "live"
                           /\ load(r3.file).pending[n2].paramsHash = paramsHash))))
    /\ ( /\ last.op = "gate" /\ last.repeat
         /\ last.toolName = ReqConfigApply.toolName
         /\ last.params = ReqConfigApply.params )
        => /\ last.outcome = "ESCALATE"
           /\ last.nonce \in DOMAIN load(file).pending
           /\ load(file).pending[last.nonce].paramsHash = last.hash

\* the config.apply request was allowed by an approval and, made once more,
\* escalated again under the evaluator with a pending record
ConfigApplyFlowSeen ==
    /\ last.op = "gate" /\ last.repeat
    /\ last.toolName = ReqConfigApply.toolName
    /\ last.params = ReqConfigApply.params
    /\ last.via = "evaluator"
    /\ last.outcome = "ESCALATE"
    /\ last.nonce \in DOMAIN load(file).pending

\* C21: a gate request that ends in BLOCK creates no nonce and leaves the
\* pending mapping as it is and the approved mapping as it is except for an
\* expired ApprovedAction of the request's own fingerprint, which is
\* removed; and the request exec "rm -rf /" (gate enabled, tool not exempt)
\* ends in BLOCK with the reason naming the destruction of the root
\* filesystem.
BlockCreatesNoNonce ==
    /\ \A req \in Requests : \A nonce \in Nonces :
        LET paramsHash == hashParams(req.toolName, req.params)
            r == beforeToolCall(config, file, now, req.toolName, req.params,
                                nonce, TRUE, TRUE)
        IN  r.outcome = "BLOCK"
            => /\ r.nonce = ""
               /\ load(r.file).pending = load(file).pending
               /\ load(r.file).approved =
                      IF ApprovedStatus(load(file), paramsHash, now) = "expired"
                      THEN Delete(load(file).approved, paramsHash)
                      ELSE load(file).approved
    /\ ( /\ last.op = "gate"
         /\ config.enabled
         /\ last.toolName \notin NeverBlock(config)
         /\ last.toolName = ReqRmRoot.toolName
         /\ last.params = ReqRmRoot.params )
        => /\ last.outcome = "BLOCK"
           /\ last.reason = <<"Command would destroy root filesystem">>

SearchedParams == {"command", "raw"}
RiskSubstrings ==
    { <<"s","u","d","o">>, <<"r","m"," ">>, <<"|">>, <<";">>, <<"k","i","l","l">>, <<"p","k","i","l","l">>, <<"s","h","u","t","d","o","w","n">>, <<"r","e","b","o","o","t">>,
      <<"o","p","e","n","c","l","a","w">>, <<"s","t","o","p">>, <<"m","o","d","e","l">>, <<"d","e","f","a","u","l","t","M","o","d","e","l">>, <<"p","l","u","g","i","n">> }

\* the risk indicators a request shows
Indicators(req) ==
    {ks \in SearchedParams \X RiskSubstrings :
        Includes(StringOrEmpty(Get(req.params, ks[1])), ks[2])}

\* b is a request for the same tool with the same other parameters that
\* shows all the risk indicators of a and more
MoreIndicators(a, b) ==
    /\ a.toolName = b.toolName
    /\ \A k \in {KeyOrder[i] : i \in 1..Len(KeyOrder)} \ SearchedParams :
            Get(a.params, k) = Get(b.params, k)
    /\ Indicators(a) \subseteq Indicators(b)
    /\ Indicators(a) # Indicators(b)

\* C24: risk scoring is monotonic in the risk indicators: when the second
\* request shows all the risk indicators of the first and more, its
\* clarity, its stakes and their product are not lower than the first's.
MoreIndicatorsNeverLower ==
    (probe.done /\ MoreIndicators(probe.a, probe.b))
    => /\ probe.scoreB.clarity >= probe.scoreA.clarity
       /\ probe.scoreB.stakes >= probe.scoreA.stakes
       /\ probe.scoreB.clarity * probe.scoreB.stakes
              >= probe.scoreA.clarity * probe.scoreA.stakes

\* C23: every ESCALATE denial of the gate carries a nonce that, when the
\* gate returns, is the key of a live PendingEscalation in the persisted
\* store whose fingerprint is that of the denied request and whose
\* expiresAt is the creation time plus pendingTimeoutMs; approve of that
\* nonce up to the deadline succeeds.
EscalateStoresPending ==
    /\ \A req \in Requests : \A nonce \in Nonces :
        Bind(beforeToolCall(config, file, now, req.toolName, req.params,
                            nonce, TRUE, TRUE), LAMBDA r :
            r.outcome = "ESCALATE"
            => /\ r.nonce = nonce
               /\ PendingStatus(load(r.file), nonce, now) = "live"
               /\ load(r.file).pending[nonce].paramsHash
                      = hashParams(req.toolName, req.params)
               /\ load(r.file).pending[nonce].createdAt = now
               /\ load(r.file).pending[nonce].expiresAt
                      = now + PendingTimeoutMs(config)
               /\ execute(config, r.file, now + PendingTimeoutMs(config),
                          nonce, TRUE).ok)
    /\ (last.op = "gate" /\ last.outcome = "ESCALATE")
        => /\ last.nonce \in DOMAIN load(file).pending
           /\ LET p == load(file).pending[last.nonce]
              IN  /\ p.paramsHash = hashParams(last.toolName, last.params)
                  /\ p.expiresAt = p.createdAt + PendingTimeoutMs(config)
                  /\ p.createdAt <= now

\* a nonce handed out by an escalation was approved at its deadline
EscalatedNonceApprovedSeen ==
    /\ last.op = "approve" /\ last.outcome = "ok" /\ last.had = "live"
    /\ now = PendingTimeoutMs(config)
    /\ last.hash \in DOMAIN load(file).approved
    /\ load(file).approved[last.hash].nonce = last.nonce
    /\ load(file).approved[last.hash].approvedAt = now

\* C25: the store persists across restarts: when a new store is created on
\* the same file, every PendingEscalation and ApprovedAction that is not
\* expired at that moment is still there and usable (the nonce can be
\* approved, the approval is found by consumeApproval), and exactly the
\* records whose expiresAt has passed are removed.
RestartKeepsLiveRecords ==
    [][(last'.op = "restart" /\ now' = now)
       => /\ \A n \in DOMAIN load(file).pending :
               IF PendingStatus(load(file), n, now) = "live"
               THEN /\ n \in DOMAIN load(file').pending
                    /\ load(file').pending[n] = load(file).pending[n]
                    /\ execute(config, file', now, n, TRUE).ok
               ELSE n \notin DOMAIN load(file').pending
          /\ \A h \in DOMAIN load(file).approved :
               IF ApprovedStatus(load(file), h, now) = "live"
               THEN /\ h \in DOMAIN load(file').approved
                    /\ load(file').approved[h] = load(file).approved[h]
                    /\ consumeApproval(load(file'), h, now).found
               ELSE h \notin DOMAIN load(file').approved
          /\ DOMAIN load(file').pending \subseteq DOMAIN load(file).pending
          /\ DOMAIN load(file').approved \subseteq DOMAIN load(file).approved]_vars

\* a restart swept an expired record and a live pending escalation is
\* still in the store
RestartKeepsLiveRecordsSeen ==
    /\ last.op = "restart" /\ last.had = "expired"
    /\ \E n \in DOMAIN load(file).pending :
          /\ PendingStatus(load(file), n, now) = "live"
          /\ execute(config, file, now, n, TRUE).ok

\* C26: a nonce is single-use for good: once ga_approve of a nonce has
\* returned (ok, NotFound or Expired) and other calls have followed, no
\* later ga_approve of that nonce succeeds, whatever gate requests,
\* escalations and approvals of other nonces happened in between.
NonceSpentForGood ==
    \A n \in Nonces :
        []((last.op = "approve" /\ last.nonce = n)
            => [](~(last.op = "approve" /\ last.nonce = n)
                    => []~(last.op = "approve" /\ last.nonce = n
                           /\ last.outcome = "ok")))

\* C27: when the configuration does not set neverBlock the default
\* exemption set applies: a request for memory_search, or another tool of
\* DEFAULT_NEVER_BLOCK, is ALLOWed at the exemption step without a store
\* lookup and without the Evaluator.
DefaultExemptionApplies ==
    ( /\ last.op = "gate"
      /\ config.enabled
      /\ ~config.neverBlock.set
      /\ last.toolName \in DEFAULT_NEVER_BLOCK )
    => /\ last.outcome = "ALLOW"
       /\ last.via = "exempt"
       /\ ~last.evaluated
       /\ last.hash = <<>>

\* line is a log entry of the given level whose text has all the parts
Logged(line, level, parts) ==
    /\ line.level = level
    /\ \A i \in 1..Len(parts) : Includes(line.msg, parts[i])

\* C28 as stated: every gate request that ends in BLOCK or in ESCALATE
\* appends a log entry that contains both the tool name and the reason
\* given in the denial.
DenialLoggedWithReason ==
    (last.op = "gate" /\ last.outcome \in {"BLOCK", "ESCALATE"})
    => \E i \in 1..Len(last.log) :
           /\ Includes(last.log[i].msg, <<last.toolName>>)
           /\ Includes(last.log[i].msg, last.reason)

\* C28, amended: a gate request that ends in BLOCK appends a warn entry
\* with the tool name and the reason; one that ends in ESCALATE (from the
\* Evaluator or the forced-approval rule) appends an info entry with the
\* tool name and the nonce, and no entry with the reason.
DenialLogged ==
    /\ (last.op = "gate" /\ last.outcome = "BLOCK")
        => \E i \in 1..Len(last.log) :
               Logged(last.log[i], "warn", <<(<<last.toolName>>), last.reason>>)
    /\ (last.op = "gate" /\ last.outcome = "ESCALATE")
        => /\ last.reason # <<>>
           /\ \E i \in 1..Len(last.log) :
                 Logged(last.log[i], "info", <<(<<last.toolName>>), (<<last.nonce>>)>>)
           /\ \A i \in 1..Len(last.log) : ~Includes(last.log[i].msg, last.reason)

\* an escalation by the forced-approval rule wrote its info entry
DenialLoggedSeen ==
    /\ last.op = "gate" /\ last.outcome = "ESCALATE" /\ last.via = "alwaysBlock"
    /\ Len(last.log) = 1
    /\ Logged(last.log[1], "info", <<(<<last.toolName>>), (<<last.nonce>>)>>)

\* u and v are the same value up to the insertion order of object keys
RECURSIVE SameValue(_, _)
SameValue(u, v) ==
    /\ u.t = v.t
    /\ IF u.t = "obj"
       THEN /\ {u.v[i][1] : i \in 1..Len(u.v)} = {v.v[i][1] : i \in 1..Len(v.v)}
            /\ Len(u.v) = Len(v.v)
            /\ \A i \in 1..Len(u.v) : SameValue(u.v[i][2], Get(v, u.v[i][1]))
       ELSE IF u.t = "arr"
       THEN /\ Len(u.v) = Len(v.v)
            /\ \A i \in 1..Len(u.v) : SameValue(u.v[i], v.v[i])
       ELSE u.v = v.v

\* C29: hashParams is independent of field order: for one toolName and two
\* params with the same keys and values inserted in a different order, at
\* the top level and in nested objects, the fingerprints are equal; and a
\* repeated call returns the same fingerprint.
HashIgnoresKeyOrder ==
    probe.done
    => /\ ( /\ probe.a.toolName = probe.b.toolName
            /\ SameValue(probe.a.params, probe.b.params) )
          => probe.hashA = probe.hashB
       /\ probe.hashA = hashParams(probe.a.toolName, probe.a.params)
       /\ probe.hashB = hashParams(probe.b.toolName, probe.b.params)

\* two params that differ only in key order, at both levels, got the same
\* fingerprint, which is not that of the empty text
HashIgnoresKeyOrderSeen ==
    /\ probe.done
    /\ probe.a.toolName = probe.b.toolName
    /\ probe.a.params # probe.b.params
    /\ SameValue(probe.a.params, probe.b.params)
    /\ probe.hashA = probe.hashB
    /\ probe.hashA # Sha256Hex16(<<"{", "}">>)

\* C30: in every reachable store state every PendingEscalation has
\* expiresAt strictly greater than createdAt and every ApprovedAction has
\* expiresAt strictly greater than approvedAt, for every configuration of
\* pendingTimeoutMs and approvalWindowMs the plugin accepts.
ExpiresAfterCreation ==
    /\ \A n \in DOMAIN load(file).pending :
           load(file).pending[n].expiresAt > load(file).pending[n].createdAt
    /\ \A h \in DOMAIN load(file).approved :
           load(file).approved[h].expiresAt > load(file).approved[h].approvedAt

ApproveMovesRecord ==
    \A nonce \in DOMAIN load(file).pending :
        Bind(load(file).pending[nonce], LAMBDA pending :
        Bind(execute(config, file, now, nonce, TRUE), LAMBDA r :
            r.ok
            => /\ nonce \notin DOMAIN load(r.file).pending
               /\ pending.paramsHash \in DOMAIN load(r.file).approved
               /\ Bind(load(r.file).approved[pending.paramsHash], LAMBDA approved :
                      /\ approved.nonce = nonce
                      /\ approved.toolName = pending.toolName
                      /\ approved.paramsHash = pending.paramsHash
                      /\ approved.approvedAt = now
                      /\ approved.expiresAt = now + ApprovalWindowMs(config))
               /\ r.windowSeconds * 1000 = ApprovalWindowMs(config)))

\* an approve succeeded and its record is in approved, not in pending
ApproveMovesRecordSeen ==
    /\ last.op = "approve"
    /\ last.outcome = "ok"
    /\ last.windowSeconds = 30
    /\ last.nonce \notin DOMAIN load(file).pending
    /\ last.hash \in DOMAIN load(file).approved
    /\ load(file).approved[last.hash].nonce = last.nonce

\* C33: approve(nonce) changes nothing but the pending record of that nonce
\* and the approved entry of that record's fingerprint: the other pending
\* records and the approved entries of other fingerprints are unchanged, a
\* refused approve leaves approved as it is, and no gate decision is made.
ApproveChangesOnlyItsRecord ==
    \A nonce \in Nonces :
        Bind(load(file), LAMBDA before :
        Bind(execute(config, file, now, nonce, TRUE), LAMBDA r :
        Bind(load(r.file), LAMBDA after :
            /\ \A n \in Nonces \ {nonce} :
                   /\ n \in DOMAIN before.pending <=> n \in DOMAIN after.pending
                   /\ n \in DOMAIN before.pending
                      => after.pending[n] = before.pending[n]
            /\ \A h \in (DOMAIN before.approved \cup DOMAIN after.approved) :
                   ( r.ok /\ h = before.pending[nonce].paramsHash )
                   \/ ( /\ h \in DOMAIN before.approved
                        /\ h \in DOMAIN after.approved
                        /\ after.approved[h] = before.approved[h] )
            /\ DOMAIN after.pending \subseteq DOMAIN before.pending
            /\ nonce \notin DOMAIN before.pending => r.file = file
            /\ DOMAIN r = {"file", "ok", "error", "windowSeconds", "hash", "log"})))

\* an approve succeeded while another escalation was pending and an approval
\* of another fingerprint was stored, and both are still there
ApproveChangesOnlyItsRecordSeen ==
    /\ last.op = "approve"
    /\ last.outcome = "ok"
    /\ \E n \in DOMAIN load(file).pending : n # last.nonce
    /\ \E h \in DOMAIN load(file).approved : h # last.hash

\* C34: the Evaluator runs the Intrinsic-Evil Detector before any scoring:
\* whenever the detector matches a request, evaluate returns BLOCK with the
\* detector's reason, for every escalationThreshold (1 and values above 100
\* included) and whatever clarity and stakes the request would get.
DetectorBeforeScoring ==
    probe.done
    => /\ checkIntrinsicEvil(probe.a.toolName, probe.a.params) # NoReason
          => /\ probe.evalA.decision = "block"
             /\ probe.evalA.reason
                    = checkIntrinsicEvil(probe.a.toolName, probe.a.params)
       /\ checkIntrinsicEvil(probe.b.toolName, probe.b.params) # NoReason
          => /\ probe.evalB.decision = "block"
             /\ probe.evalB.reason
                    = checkIntrinsicEvil(probe.b.toolName, probe.b.params)

\* a request the detector matches, whose score 6 * 7 is below the threshold
\* of 101, was blocked with the detector's reason
DetectorBeforeScoringSeen ==
    /\ probe.done
    /\ config.escalationThreshold = Num(101)
    /\ probe.scoreA.clarity * probe.scoreA.stakes < 101
    /\ checkIntrinsicEvil(probe.a.toolName, probe.a.params) # NoReason
    /\ probe.evalA.decision = "block"
    /\ probe.evalA.reason = <<"Command would destroy root filesystem">>

\* text is the beginning of longer
IsPrefix(text, longer) ==
    /\ Len(text) <= Len(longer)
    /\ SubSeq(longer, 1, Len(text)) = text

\* the command of an exec request (the empty text for other requests)
CommandOf(req) ==
    IF req.toolName = "exec" /\ HasKey(req.params, "command")
    THEN Get(req.params, "command").v ELSE <<>>

\* C35: a BLOCK of the Intrinsic-Evil Detector cannot be removed by adding
\* content: for every exec command the detector blocks (recursive delete of
\* root, fork bomb, filesystem format, raw device write), every command
\* obtained by appending text to it is blocked too.
AppendedTextStaysBlocked ==
    ( /\ probe.done
      /\ probe.a.toolName = "exec"
      /\ probe.b.toolName = "exec"
      /\ IsPrefix(CommandOf(probe.a), CommandOf(probe.b))
      /\ probe.evalA.decision = "block" )
    => probe.evalB.decision = "block"

\* one step of the plugin in the light of the provenance of approvals
ProvenanceStep ==
    Bind(load(file), LAMBDA before :
    Bind(load(file'), LAMBDA after :
        \* an ALLOW by approval reports the nonce of the record it removes,
        \* and is the first one since that record was approved
        /\ ( last'.op = "gate" /\ now' = now /\ last'.via = "approval" )
           => /\ last'.outcome = "ALLOW"
              /\ last'.hash \in DOMAIN before.approved
              /\ before.approved[last'.hash].nonce = last'.nonce
              /\ last'.hash \notin DOMAIN after.approved
              /\ used[last'.hash] = 0
        \* an approved record appears only by a successful approve of the
        \* nonce of a pending record with the same fingerprint
        /\ \A h \in DOMAIN after.approved :
               ( h \notin DOMAIN before.approved
                 \/ before.approved[h] # after.approved[h] )
               => /\ last'.op = "approve"
                  /\ last'.outcome = "ok"
                  /\ last'.nonce = after.approved[h].nonce
                  /\ last'.nonce \in DOMAIN before.pending
                  /\ before.pending[last'.nonce].paramsHash = h
                  /\ used'[h] = 0
        \* a pending record appears only by an ESCALATE that issued its
        \* nonce for a request with its fingerprint
        /\ \A n \in DOMAIN after.pending :
               ( n \notin DOMAIN before.pending
                 \/ before.pending[n] # after.pending[n] )
               => /\ last'.op = "gate"
                  /\ last'.outcome = "ESCALATE"
                  /\ last'.nonce = n
                  /\ after.pending[n].paramsHash = last'.hash
                  /\ after.pending[n].toolName = last'.toolName))

\* C36: provenance of every approval-based ALLOW: whenever the gate allows a
\* request through approval consumption and reports nonce n, the trace
\* contains earlier, in this order, an ESCALATE that issued n for a request
\* with the same fingerprint and a successful approve(n), and no other ALLOW
\* reporting n lies between that approve and this ALLOW.  Stated step by
\* step: the ALLOW removes an approved record with nonce n that no ALLOW
\* used before, such a record is only written by a successful approve(n) of
\* a pending record with that fingerprint, and such a pending record is
\* only written by an ESCALATE issuing n for that fingerprint.
ApprovalProvenance == [][ProvenanceStep]_vars

\* a request escalated by the Evaluator was allowed by its approval, which
\* is gone from the store
ApprovalProvenanceSeen ==
    /\ last.op = "gate"
    /\ last.via = "approval"
    /\ last.nonce \in Nonces
    /\ last.toolName = "gateway"
    /\ used[last.hash] = 1
    /\ last.hash \notin DOMAIN load(file).approved

\* C37: an approval is valid for a bounded time: an approval-based ALLOW
\* happens no later than approvalWindowMs after the approve and no later
\* than pendingTimeoutMs + approvalWindowMs after the escalation, and past
\* these deadlines the request is never allowed through that escalation.
\* For every live escalation: approve succeeds at createdAt + pendingTimeoutMs
\* and is refused one millisecond later; after the latest approve the
\* request is allowed at the end of the window and not one millisecond
\* later; and every ALLOW by approval found its approval inside the window.
ApprovalValidityBounded ==
    /\ ( last.op = "gate" /\ last.via = "approval" ) => last.had = "live"
    /\ \A n \in DOMAIN load(file).pending :
           Bind(load(file).pending[n], LAMBDA pending :
           Bind(pending.createdAt + PendingTimeoutMs(config), LAMBDA deadline :
               /\ pending.expiresAt = deadline
               /\ \A h \in DOMAIN load(file).approved :
                      load(file).approved[h].expiresAt
                          = load(file).approved[h].approvedAt + ApprovalWindowMs(config)
               /\ ~execute(config, file, deadline + 1, n, TRUE).ok
               /\ now <= deadline
                  => Bind(execute(config, file, deadline, n, TRUE), LAMBDA approved :
                         /\ approved.ok
                         /\ beforeToolCall(config, approved.file,
                                deadline + ApprovalWindowMs(config),
                                pending.toolName, pending.params, n, TRUE, TRUE).via
                                = "approval"
                         /\ beforeToolCall(config, approved.file,
                                deadline + ApprovalWindowMs(config) + 1,
                                pending.toolName, pending.params, n, TRUE, TRUE).via
                                # "approval")))

\* a request was allowed by an approval at the last moment of its window
ApprovalValidityBoundedSeen ==
    /\ last.op = "gate"
    /\ last.via = "approval"
    /\ last.had = "live"
    /\ ticks = 1
    /\ now = ApprovalWindowMs(config)

\* C38: the gate outcome depends on toolName, params, the configuration,
\* the store and the time only, not on the request context (agentId,
\* sessionKey): in every reachable state the handler returns the same for a
\* request whatever the context, and an approval obtained after an
\* escalation in one session is consumed by the first identical request,
\* from whichever session it comes.
ContextIgnored ==
    /\ \A req \in Requests : \A c1 \in Contexts : \A c2 \in Contexts :
           handler(config, file, now, req, c1, "a7f3c21b", TRUE, TRUE)
               = handler(config, file, now, req, c2, "a7f3c21b", TRUE, TRUE)
    /\ ( last.op = "gate" /\ last.had = "live" )
       => /\ last.outcome = "ALLOW"
          /\ last.via = "approval"
          /\ last.hash \notin DOMAIN load(file).approved

\* a request of session s2 was allowed by the approval of an escalation
\* that was issued, under that nonce, to session s1
ContextIgnoredSeen ==
    /\ last.op = "gate"
    /\ last.via = "approval"
    /\ last.session = "s2"
    /\ <<last.nonce, "s1">> \in issued

\* C39: one approval yields at most one ALLOW also when writes can fail:
\* if the write that removes the ApprovedAction in consumeApproval fails,
\* the gate still does not allow two identical requests from that single
\* approval: a request allowed by an approval is the only one allowed since
\* that approval was given.
OneAllowWhenDeleteFails ==
    ( last.op = "gate" /\ last.via = "approval" ) => used[last.hash] <= 1
====
